---- MODULE Spec2Model ----
(***************************************************************************)
(* A model of the zkVM core: the RV32IM interpreter of                     *)
(* core/src/runtime/mod.rs (Runtime) and the execution record of           *)
(* crates/core/executor/src/record.rs (ExecutionRecord).                   *)
(*                                                                         *)
(* Machine words.  A u32 and an i32 are the same 32 bits.  TLC's integers  *)
(* are 32-bit, so a word is stored as the i32 reading of its bits: the u32 *)
(* value v is stored as v when v < 2^31 and as v - 2^32 otherwise          *)
(* (0xFFFFFFFF is -1, 0x80000000 is I32_MIN).  `x as i32` and `x as u32`   *)
(* are therefore the identity on the stored value, and every operation     *)
(* below is written so that it yields the bits the Rust operation yields.  *)
(***************************************************************************)
EXTENDS Integers, Sequences, FiniteSets, TLC

\* ------------------------------------------------------------------ bounds

\* The longest program the interpreter is run on.
MaxCodeLen == 3

\* The most events a precompile stream of a record to split starts with.
MaxEvents == 5

\* The largest chunk size (threshold) of the SplitOpts.
MaxChunk == 2

\* The most memory initialize events of a record to split.
MaxMemEvents == 3

\* The most ALU events of a record, over its eight ALU streams.
MaxAluEvents == 3

\* The most calls made on a record after it is built.
MaxCalls == 2

\* The number of cycles of Runtime::run that are explored: a program that loops
\* is followed this far.
MaxClk == 5

\* A step budget to hold Runtime::run against.
max_cycles == 4

\* ------------------------------------------------------------ machine words

I32_MAX == 2147483647
I32_MIN == -I32_MAX - 1

\* 0xFFFFFFFF
U32_MAX == -1

\* u32 `<`: unsigned order of two stored words.
lt_u(x, y) == IF (x < 0) = (y < 0) THEN x < y ELSE y < 0

\* u32::wrapping_add / i32::wrapping_add (the same bits).
wrapping_add(x, y) ==
    IF x >= 0 /\ y >= 0 /\ x > I32_MAX - y THEN ((x - I32_MAX) - 1) + ((y - I32_MAX) - 1)
    ELSE IF x < 0 /\ y < 0 /\ x < I32_MIN - y THEN ((x + I32_MAX) + 1) + ((y + I32_MAX) + 1)
    ELSE x + y

\* u32::wrapping_sub.
wrapping_sub(x, y) ==
    IF y = I32_MIN THEN wrapping_add(wrapping_add(x, I32_MAX), 1)
    ELSE wrapping_add(x, -y)

\* Division of integers truncated towards zero, for d # 0 (Rust's `/` and `%`).
trunc_div(n, d) ==
    IF d = I32_MIN THEN (IF n = I32_MIN THEN 1 ELSE 0)
    ELSE LET ad == IF d < 0 THEN -d ELSE d
             t == IF n < 0 /\ n % ad # 0 THEN (n \div ad) + 1 ELSE n \div ad
         IN IF d < 0 THEN -t ELSE t

trunc_rem(n, d) == n - d * trunc_div(n, d)

\* i32::wrapping_div, for a divisor other than 0: I32_MIN / -1 wraps to I32_MIN.
i32_wrapping_div(x, y) == IF x = I32_MIN /\ y = -1 THEN I32_MIN ELSE trunc_div(x, y)

\* i32::wrapping_rem, for a divisor other than 0: I32_MIN % -1 is 0.
i32_wrapping_rem(x, y) == IF x = I32_MIN /\ y = -1 THEN 0 ELSE trunc_rem(x, y)

\* Quotient and remainder of the u32 values of two stored words, y # 0.
\* A word x < 0 is the u32 2^31 + lo with lo = x - I32_MIN.
u32_divrem(x, y) ==
    IF y < 0 THEN
        (IF lt_u(x, y) THEN [q |-> 0, r |-> x] ELSE [q |-> 1, r |-> wrapping_sub(x, y)])
    ELSE IF x >= 0 THEN [q |-> x \div y, r |-> x % y]
    ELSE IF y = 1 THEN [q |-> x, r |-> 0]
    ELSE LET lo == (x + I32_MAX) + 1
             q1 == I32_MAX \div y
             r1 == I32_MAX % y
             q2 == lo \div y
             r2 == lo % y
             carry == (r1 + 1) >= (y - r2)
         IN [q |-> q1 + q2 + (IF carry THEN 1 ELSE 0),
             r |-> IF carry THEN (r1 + 1) - (y - r2) ELSE r1 + 1 + r2]

\* u32::wrapping_div / u32::wrapping_rem, for a divisor other than 0.
u32_wrapping_div(x, y) == u32_divrem(x, y).q

u32_wrapping_rem(x, y) == u32_divrem(x, y).r

\* `x as u8 as u32`, `x as u16 as u32`: the low bits, zero-extended.
as_u8(x) == x % 256

as_u16(x) == x % 65536

\* `x as i8 as u32`, `x as i16 as u32`: the low bits, sign-extended.
as_i8(x) == IF x % 256 >= 128 THEN (x % 256) - 256 ELSE x % 256

as_i16(x) == IF x % 65536 >= 32768 THEN (x % 65536) - 65536 ELSE x % 65536

\* x << k for 0 <= k <= 31: the bits shifted out are lost.
RECURSIVE shl(_, _)
shl(x, k) == IF k = 0 THEN x ELSE shl(wrapping_add(x, x), k - 1)

\* u32 x >> k for 0 <= k <= 31: zeros come in from the left.
shr_u32(x, k) ==
    IF k = 0 THEN x
    ELSE LET h == IF x >= 0 THEN x \div 2 ELSE ((x \div 2) + I32_MAX) + 1
         IN h \div (2 ^ (k - 1))

\* i32 x >> k for 0 <= k <= 31: the sign bit comes in from the left.
shr_i32(x, k) == IF k = 31 THEN (IF x < 0 THEN -1 ELSE 0) ELSE x \div (2 ^ k)

\* The bitwise operators, bit by bit over the 32 bits of the two words; n counts
\* the bits below the sign bit that are still to do.
RECURSIVE bitwise(_, _, _, _)
bitwise(op, x, y, n) ==
    LET bx == IF n = 0 THEN (IF x < 0 THEN 1 ELSE 0) ELSE x % 2
        by == IF n = 0 THEN (IF y < 0 THEN 1 ELSE 0) ELSE y % 2
        bit == CASE op = "xor" -> (bx + by) % 2
                 [] op = "or" -> IF bx + by > 0 THEN 1 ELSE 0
                 [] op = "and" -> bx * by
    IN IF n = 0 THEN -bit ELSE 2 * bitwise(op, x \div 2, y \div 2, n - 1) + bit

bit_xor(x, y) == bitwise("xor", x, y, 31)

bit_or(x, y) == bitwise("or", x, y, 31)

bit_and(x, y) == bitwise("and", x, y, 31)

\* Byte i (0 = least significant) of the u32 value of a stored word.
byte_of(x, i) == (x \div (2 ^ (8 * i))) % 256

\* The word whose four bytes, least significant first, are b0..b3.
from_bytes(b0, b1, b2, b3) ==
    b0 + 256 * b1 + 65536 * b2 + 16777216 * (IF b3 >= 128 THEN b3 - 256 ELSE b3)

\* The 64-bit product of the u32 values of x and y, as its eight bytes (least
\* significant first): schoolbook multiplication on bytes.
u64_mul_bytes(x, y) ==
    LET col(k) == LET S == {i \in 0..3 : k - i \in 0..3}
                      f[T \in SUBSET S] ==
                          IF T = {} THEN 0
                          ELSE LET i == CHOOSE j \in T : TRUE
                               IN byte_of(x, i) * byte_of(y, k - i) + f[T \ {i}]
                  IN f[S]
        acc[k \in 0..7] == col(k) + (IF k = 0 THEN 0 ELSE acc[k - 1] \div 256)
    IN [k \in 0..7 |-> acc[k] % 256]

\* u32::wrapping_mul: the low 32 bits of the product.
wrapping_mul(x, y) ==
    LET p == u64_mul_bytes(x, y) IN from_bytes(p[0], p[1], p[2], p[3])

\* `((x as u64).wrapping_mul(y as u64) >> 32) as u32`: the high 32 bits of the
\* product of the two u32 values.  `x as i64` of a u32 x zero-extends as well,
\* and the product of two values below 2^32 does not wrap in 64 bits.
mul_high_zero_extended(x, y) ==
    LET p == u64_mul_bytes(x, y) IN from_bytes(p[4], p[5], p[6], p[7])

\* ----------------------------------------------------------------- state

VARIABLES
    \* Runtime (core/src/runtime/mod.rs)
    clk,              \* Runtime.clk
    pc,               \* Runtime.pc
    code,             \* Runtime.code
    registers,        \* Runtime.registers
    memory,           \* Runtime.memory, a map: its domain is the set of keys
    memory_events,    \* Runtime.memory_events
    alu_events,       \* Runtime.alu_events
    status,           \* where Runtime::run is: "new", "running", "returned", "panicked"
    overflow_checks,  \* the build: TRUE when arithmetic overflow panics (debug)
    last_cycle,       \* history: the instruction of the last cycle and the state it ran in
    \* ExecutionRecord (crates/core/executor/src/record.rs)
    record,           \* the record the methods are called on (self)
    other,            \* a second record, the argument of append
    opts,             \* the SplitOpts in force
    shards,           \* the vector the last split returned
    calls,            \* the number of calls made so far
    last_call,        \* history: the last call, with self and other as they were before it
    \* PublicValues (core/src/air/public_values.rs)
    values,           \* the PublicValues<u32, u32> the methods are called on (self)
    max_num_pvs,      \* the build: the value of PROOF_MAX_NUM_PVS
    debug_assertions, \* the build: TRUE when debug_assert! is compiled in
    values_call       \* history: the last call, what it returned, whether it panicked

runtime_vars ==
    <<clk, pc, code, registers, memory, memory_events, alu_events, status,
      overflow_checks, last_cycle>>

record_vars == <<record, other, opts, shards, calls, last_call>>

values_vars == <<values, max_num_pvs, debug_assertions, values_call>>

vars == <<runtime_vars, record_vars, values_vars>>

\* ------------------------------------------------------ Instruction, Opcode

RTypeOpcodes ==
    {"ADD", "SUB", "XOR", "OR", "AND", "SLL", "SRL", "SRA", "SLT", "SLTU",
     "MUL", "MULH", "MULSU", "MULU", "DIV", "DIVU", "REM", "REMU"}

ITypeAluOpcodes ==
    {"ADDI", "XORI", "ORI", "ANDI", "SLLI", "SRLI", "SRAI", "SLTI", "SLTIU"}

LoadOpcodes == {"LB", "LH", "LW", "LBU", "LHU"}

StoreOpcodes == {"SB", "SH", "SW"}

BranchOpcodes == {"BEQ", "BNE", "BLT", "BGE", "BLTU", "BGEU"}

DivRemOpcodes == {"DIV", "DIVU", "REM", "REMU"}

ShiftOpcodes == {"SLL", "SRL", "SRA", "SLLI", "SRLI", "SRAI"}

Instruction(opcode, a, b, c) == [opcode |-> opcode, a |-> a, b |-> b, c |-> c]

\* Register::from_u32 panics on anything but 0..31.
Register_from_u32_ok(value) == value \in 0..31

\* Whether the accessor (r_type, i_type, ...) execute calls first for this
\* instruction returns, i.e. every operand it reads as a register is one.
operands_ok(instruction) ==
    CASE instruction.opcode \in RTypeOpcodes ->
             /\ Register_from_u32_ok(instruction.a)
             /\ Register_from_u32_ok(instruction.b)
             /\ Register_from_u32_ok(instruction.c)
      [] instruction.opcode \in {"JAL", "LUI", "AUIPC"} ->
             Register_from_u32_ok(instruction.a)
      [] instruction.opcode \in {"ECALL", "EBREAK"} -> TRUE
      [] OTHER ->
             /\ Register_from_u32_ok(instruction.a)
             /\ Register_from_u32_ok(instruction.b)

\* ------------------------------------------------------------------ Runtime

\* The address of the first register: registers live in memory from here on.
REG_BASE == 1024 * 1024 * 8

MemoryEvent(c, addr, op, value) == [clk |-> c, addr |-> addr, op |-> op, value |-> value]

AluEvent(c, opcode, a, b, c_) == [clk |-> c, opcode |-> opcode, a |-> a, b |-> b, c |-> c_]

\* A variant of the read in which an absent word is not 0 but depends on what
\* the run has logged so far.
memory_get_absent_varies(mem, addr) ==
    IF addr \in DOMAIN mem THEN mem[addr] ELSE Len(memory_events)

\* BTreeMap::get with the `None => 0` arm of Runtime::rm.
memory_get(mem, addr) == IF addr \in DOMAIN mem THEN mem[addr] ELSE 0

\* A variant of insert that keeps the value an address already has, as
\* `entry(addr).or_insert(value)` would.
memory_insert_keep_first(mem, addr, value) ==
    [k \in DOMAIN mem \cup {addr} |-> IF k \in DOMAIN mem THEN mem[k] ELSE value]

\* BTreeMap::insert.
memory_insert(mem, addr, value) ==
    [k \in DOMAIN mem \cup {addr} |-> IF k = addr THEN value ELSE mem[k]]

\* The part of the runtime that execute changes, threaded through its calls.
\* rt.panicked is set when the call panicked; rt is then the state at the panic.

\* Runtime::rm: the value read and the runtime after the read.
rm(rt, addr) ==
    LET value == memory_get(rt.memory, addr)
    IN [value |-> value,
        rt |-> [rt EXCEPT !.memory_events =
                    Append(@, MemoryEvent(rt.clk, addr, "Read", value))]]

\* Runtime::rr.
rr(rt, register) == rm(rt, REG_BASE + register)

\* Runtime::wm.
wm(rt, addr, value) ==
    [rt EXCEPT !.memory_events = Append(@, MemoryEvent(rt.clk, addr, "Write", value)),
               !.memory = memory_insert(@, addr, value)]

\* Runtime::wr.
wr(rt, register, value) == wm(rt, REG_BASE + register, value)

\* Runtime::emit_alu.
emit_alu(rt, opcode, a, b, c) ==
    [rt EXCEPT !.alu_events = Append(@, AluEvent(rt.clk, opcode, a, b, c))]

panic(rt) == [rt EXCEPT !.panicked = TRUE]

\* A variant in which the signed division and remainder are `/` and `%`, which
\* panic on i32::MIN / -1 as well.
alu_panics_on_overflow(opcode, b, c, checks) ==
    CASE opcode \in DivRemOpcodes ->
             c = 0 \/ (opcode \in {"DIV", "REM"} /\ b = I32_MIN /\ c = 0 - 1)
      [] opcode \in ShiftOpcodes -> checks /\ ~(c \in 0..31)
      [] OTHER -> FALSE

\* Whether computing a from b and c panics in the arm of this opcode: a division
\* or remainder by zero always does; a shift by 32 or more does when the build
\* checks overflow.
alu_panics(opcode, b, c, checks) ==
    CASE opcode \in DivRemOpcodes -> c = 0
      [] opcode \in ShiftOpcodes -> checks /\ ~(c \in 0..31)
      [] OTHER -> FALSE

\* The value a that the arm of this opcode computes from b and c when it does
\* not panic.  A shift amount of 32 or more is masked to its low five bits when
\* the build does not check overflow.
alu(opcode, b, c) ==
    CASE opcode \in {"ADD", "ADDI"} -> wrapping_add(b, c)
      [] opcode = "SUB" -> wrapping_sub(b, c)
      [] opcode \in {"XOR", "XORI"} -> bit_xor(b, c)
      [] opcode \in {"OR", "ORI"} -> bit_or(b, c)
      [] opcode \in {"AND", "ANDI"} -> bit_and(b, c)
      [] opcode \in {"SLL", "SLLI"} -> shl(b, c % 32)
      [] opcode \in {"SRL", "SRLI"} -> shr_u32(b, c % 32)
      [] opcode \in {"SRA", "SRAI"} -> shr_i32(b, c % 32)
      [] opcode \in {"SLT", "SLTI"} -> IF b < c THEN 1 ELSE 0
      [] opcode \in {"SLTU", "SLTIU"} -> IF lt_u(b, c) THEN 1 ELSE 0
      [] opcode = "MUL" -> wrapping_mul(b, c)
      [] opcode \in {"MULH", "MULSU"} -> mul_high_zero_extended(b, c)
      [] opcode = "MULU" -> mul_high_zero_extended(b, c)
      [] opcode = "DIV" -> i32_wrapping_div(b, c)
      [] opcode = "DIVU" -> u32_wrapping_div(b, c)
      [] opcode = "REM" -> i32_wrapping_rem(b, c)
      [] opcode = "REMU" -> u32_wrapping_rem(b, c)

\* A variant of the arithmetic arms that emits the ALU event only when rd is not x0.
execute_alu_no_event_for_x0(rt, instruction, checks) ==
    LET rs1 == rr(rt, instruction.b)
        rs2 == IF instruction.opcode \in RTypeOpcodes
               THEN rr(rs1.rt, instruction.c)
               ELSE [value |-> instruction.c, rt |-> rs1.rt]
        b == rs1.value
        c == rs2.value
    IN IF alu_panics(instruction.opcode, b, c, checks) THEN panic(rs2.rt)
       ELSE LET a == alu(instruction.opcode, b, c)
                written == wr(rs2.rt, instruction.a, a)
            IN IF instruction.a = 0 THEN written
               ELSE emit_alu(written, instruction.opcode, a, b, c)

\* The arms of the R-type and I-type arithmetic opcodes: read b (and c, unless
\* it is the immediate), compute a, write it to rd, emit the ALU event.
execute_alu(rt, instruction, checks) ==
    LET rs1 == rr(rt, instruction.b)
        rs2 == IF instruction.opcode \in RTypeOpcodes
               THEN rr(rs1.rt, instruction.c)
               ELSE [value |-> instruction.c, rt |-> rs1.rt]
        b == rs1.value
        c == rs2.value
    IN IF alu_panics(instruction.opcode, b, c, checks) THEN panic(rs2.rt)
       ELSE LET a == alu(instruction.opcode, b, c)
            IN emit_alu(wr(rs2.rt, instruction.a, a), instruction.opcode, a, b, c)

\* The arms of LB, LH, LW, LBU, LHU: the word at rs1 + imm, narrowed.
execute_load(rt, instruction) ==
    LET rs1 == rr(rt, instruction.b)
        addr == wrapping_add(rs1.value, instruction.c)
        word == rm(rs1.rt, addr)
        value == CASE instruction.opcode = "LB" -> as_i8(word.value)
                   [] instruction.opcode = "LH" -> as_i16(word.value)
                   [] instruction.opcode = "LW" -> word.value
                   [] instruction.opcode = "LBU" -> as_u8(word.value)
                   [] instruction.opcode = "LHU" -> as_u16(word.value)
    IN wr(word.rt, instruction.a, value)

\* The arms of SB, SH, SW: s_type() names the operands (rs1, rs2, imm) = (a, b, c).
execute_store(rt, instruction) ==
    LET rs1 == rr(rt, instruction.a)
        addr == wrapping_add(rs1.value, instruction.c)
        rs2 == rr(rs1.rt, instruction.b)
        value == CASE instruction.opcode = "SB" -> as_u8(rs2.value)
                   [] instruction.opcode = "SH" -> as_u16(rs2.value)
                   [] instruction.opcode = "SW" -> rs2.value
    IN wm(rs2.rt, addr, value)

\* The condition of a branch on the two values read.
branch_taken(opcode, x, y) ==
    CASE opcode = "BEQ" -> x = y
      [] opcode = "BNE" -> x # y
      [] opcode = "BLT" -> x < y
      [] opcode = "BGE" -> x >= y
      [] opcode = "BLTU" -> lt_u(x, y)
      [] opcode = "BGEU" -> ~lt_u(x, y)

\* A variant of the branch arms that adds the offset to the address of the branch.
execute_branch_from_own_address(rt, instruction) ==
    LET rs1 == rr(rt, instruction.a)
        rs2 == rr(rs1.rt, instruction.b)
    IN IF branch_taken(instruction.opcode, rs1.value, rs2.value)
       THEN [rs2.rt EXCEPT !.pc = wrapping_add(@ - 4, instruction.c)]
       ELSE rs2.rt

\* The arms of the branches: b_type() names the operands (rs1, rs2, imm) = (a, b, c);
\* rt.pc is the pc run has already advanced.
execute_branch(rt, instruction) ==
    LET rs1 == rr(rt, instruction.a)
        rs2 == rr(rs1.rt, instruction.b)
    IN IF branch_taken(instruction.opcode, rs1.value, rs2.value)
       THEN [rs2.rt EXCEPT !.pc = wrapping_add(@, instruction.c)]
       ELSE rs2.rt

\* `self.pc + 4` in the arms of JAL and JALR: an overflow panics when the build
\* checks overflow and wraps otherwise.
pc_plus_4_panics(rt, checks) == checks /\ rt.pc >= 0 - 4 /\ rt.pc < 0

\* The arm of JAL: j_type() names the operands (rd, imm) = (a, b).
execute_jal(rt, instruction, checks) ==
    IF pc_plus_4_panics(rt, checks) THEN panic(rt)
    ELSE [wr(rt, instruction.a, wrapping_add(rt.pc, 4))
              EXCEPT !.pc = wrapping_add(rt.pc, instruction.b)]

\* The arm of JALR: i_type() names the operands (rd, rs1, imm) = (a, b, c).
execute_jalr(rt, instruction, checks) ==
    IF pc_plus_4_panics(rt, checks) THEN panic(rt)
    ELSE LET written == wr(rt, instruction.a, wrapping_add(rt.pc, 4))
             rs1 == rr(written, instruction.b)
         IN [rs1.rt EXCEPT !.pc = wrapping_add(rs1.value, instruction.c)]

\* Runtime::execute.
execute(rt, instruction, checks) ==
    IF ~operands_ok(instruction) THEN panic(rt)
    ELSE CASE instruction.opcode \in RTypeOpcodes \cup ITypeAluOpcodes ->
                  execute_alu(rt, instruction, checks)
           [] instruction.opcode \in LoadOpcodes -> execute_load(rt, instruction)
           [] instruction.opcode \in StoreOpcodes -> execute_store(rt, instruction)
           [] instruction.opcode \in BranchOpcodes -> execute_branch(rt, instruction)
           [] instruction.opcode = "JAL" -> execute_jal(rt, instruction, checks)
           [] instruction.opcode = "JALR" -> execute_jalr(rt, instruction, checks)
           [] instruction.opcode = "LUI" ->
                  wr(rt, instruction.a, shl(instruction.b, 12))
           [] instruction.opcode = "AUIPC" ->
                  wr(rt, instruction.a, wrapping_add(rt.pc, shl(instruction.b, 12)))
           [] instruction.opcode \in {"ECALL", "EBREAK"} -> panic(rt)

\* The value a read of this register returns in the given memory.
register_value(mem, register) == memory_get(mem, REG_BASE + register)

\* The history value before any cycle has run: the instruction of the last
\* cycle, the pc, clk, memory and ALU events it started from, and the number of
\* cycles that have completed.
NoCycle ==
    [instruction |-> Instruction("NONE", 0, 0, 0), pc |-> 0, clk |-> 0, memory |-> <<>>,
     alu_events |-> <<>>, cycles |-> 0]

\* ------------------------------------------------------- the programs run

\* Register x0 and plain arithmetic.
PoolX0 ==
    {Instruction("ADDI", 0, 0, 5), Instruction("ADDI", 1, 0, 7),
     Instruction("ADD", 1, 0, 0), Instruction("ADD", 0, 1, 1),
     Instruction("SUB", 3, 0, 1), Instruction("ADDI", 3, 2, 0),
     Instruction("LUI", 0, 1, 0)}

\* Division and remainder, by zero (a register never written reads 0) and not.
PoolDiv ==
    {Instruction("ADDI", 1, 0, 7), Instruction("ADDI", 1, 0, I32_MIN),
     Instruction("ADDI", 2, 0, U32_MAX), Instruction("ADDI", 2, 0, 2),
     Instruction("DIV", 3, 1, 2), Instruction("DIVU", 3, 1, 2),
     Instruction("REM", 3, 1, 2), Instruction("REMU", 3, 1, 2)}

\* Stores and loads: 0xDEADBEEF is -559038737 as a stored word.
PoolMem ==
    {Instruction("ADDI", 1, 0, -559038737), Instruction("ADDI", 2, 0, 4096),
     Instruction("SW", 2, 1, 0), Instruction("SB", 2, 1, 0),
     Instruction("LW", 3, 2, 0), Instruction("LW", 3, 2, 4),
     Instruction("LBU", 3, 2, 1), Instruction("LB", 3, 2, 0),
     Instruction("SW", 0, 1, 4096), Instruction("LW", 3, 0, 4096)}

\* Branches, taken and not, forwards and backwards, one of them a loop
\* (beq x0, x0, -4 branches to itself), and a jump.
PoolBranch ==
    {Instruction("ADDI", 1, 0, 1), Instruction("ADDI", 2, 0, U32_MAX),
     Instruction("BEQ", 0, 0, 0 - 4), Instruction("BEQ", 1, 2, 4),
     Instruction("BNE", 1, 2, 4), Instruction("BLT", 2, 1, 4),
     Instruction("BGE", 2, 1, 0 - 8), Instruction("BLTU", 2, 1, 4),
     Instruction("BGEU", 2, 1, 0 - 8), Instruction("JAL", 1, 4, 0)}

\* Multiplications and shifts.
PoolMul ==
    {Instruction("ADDI", 1, 0, 65537), Instruction("ADDI", 2, 0, U32_MAX),
     Instruction("MUL", 3, 1, 2), Instruction("MULH", 3, 2, 2),
     Instruction("MULU", 3, 2, 1), Instruction("SLLI", 3, 1, 4),
     Instruction("SRA", 3, 2, 1), Instruction("SLTU", 3, 1, 2),
     Instruction("XOR", 3, 1, 2), Instruction("MULSU", 3, 2, 1)}

\* Shifts by less than 32 and by 32 or more, from a register and immediate.
PoolShift ==
    {Instruction("ADDI", 1, 0, 0 - 16), Instruction("ADDI", 2, 0, 33),
     Instruction("SRAI", 3, 1, 2), Instruction("SLL", 3, 1, 2),
     Instruction("SRL", 3, 1, 2), Instruction("SRA", 3, 1, 2),
     Instruction("SLLI", 3, 1, 33), Instruction("SRLI", 3, 1, 32),
     Instruction("SRAI", 3, 1, 35)}

\* Jumps: to aligned and to odd addresses, with rd and rs1 the same register
\* and not.
PoolJump ==
    {Instruction("ADDI", 1, 0, 5), Instruction("ADDI", 2, 0, 7),
     Instruction("JAL", 1, 4, 0), Instruction("JAL", 0, 1, 0),
     Instruction("JALR", 3, 1, 3), Instruction("JALR", 1, 1, 0),
     Instruction("JALR", 3, 1, 0)}

\* A word stored at an aligned address and byte loads at and inside it.
PoolBytes ==
    {Instruction("ADDI", 1, 0, -559038737), Instruction("SW", 0, 1, 4096),
     Instruction("LBU", 3, 0, 4096), Instruction("LBU", 3, 0, 4097),
     Instruction("LBU", 3, 0, 4099), Instruction("LB", 3, 0, 4096),
     Instruction("LB", 3, 0, 4099)}

Pools == {PoolX0, PoolDiv, PoolMem, PoolBranch, PoolMul, PoolShift, PoolJump, PoolBytes}

Programs == UNION {UNION {[1..n -> pool] : n \in 0..MaxCodeLen} : pool \in Pools}

\* --------------------------------------------------------- Runtime actions

\* Runtime::new(code), built with or without overflow checks.
RuntimeInit ==
    /\ code \in Programs
    /\ overflow_checks \in BOOLEAN
    /\ clk = 0
    /\ pc = 0
    /\ registers = [r \in 0..31 |-> 0]
    /\ memory = <<>>
    /\ memory_events = <<>>
    /\ alu_events = <<>>
    /\ status = "new"
    /\ last_cycle = NoCycle

\* Runtime::run, up to its loop: x2 and x0 of the registers array are set.
run_enter ==
    /\ status = "new"
    /\ registers' = [registers EXCEPT ![2] = 1024 * 1024 * 8, ![0] = 0]
    /\ status' = "running"
    /\ UNCHANGED <<clk, pc, code, memory, memory_events, alu_events,
                   overflow_checks, last_cycle, record_vars,
                   values_vars>>

\* Runtime::fetch.
fetch(p) == code[(p \div 4) + 1]

\* The loop condition of Runtime::run.
run_condition == lt_u(pc, Len(code) * 4)

\* One iteration of the loop of Runtime::run, given what it adds to pc before
\* execute and to clk after it.  A panic in execute ends the run where it happened.
cycle(pc_step, clk_step) ==
    /\ status = "running"
    /\ run_condition
    /\ clk < MaxClk
    /\ LET instruction == fetch(pc)
           rt == execute([clk |-> clk, pc |-> pc + pc_step, memory |-> memory,
                          memory_events |-> memory_events,
                          alu_events |-> alu_events, panicked |-> FALSE],
                         instruction, overflow_checks)
       IN /\ pc' = rt.pc
          /\ memory' = rt.memory
          /\ memory_events' = rt.memory_events
          /\ alu_events' = rt.alu_events
          /\ clk' = IF rt.panicked THEN clk ELSE clk + clk_step
          /\ status' = IF rt.panicked THEN "panicked" ELSE "running"
          /\ last_cycle' = [instruction |-> instruction, pc |-> pc, clk |-> clk,
                            memory |-> memory, alu_events |-> alu_events,
                            cycles |-> IF rt.panicked THEN last_cycle.cycles
                                       ELSE last_cycle.cycles + 1]
    /\ UNCHANGED <<code, registers, overflow_checks, record_vars, values_vars>>

\* A variant of the loop that counts pc in instructions.
run_cycle_pc_by_one == cycle(1, 1)

\* A variant of the loop that advances clk by 4 a cycle.
run_cycle_clk_by_four == cycle(4, 4)

\* One iteration of the loop of Runtime::run: fetch, advance pc by 4, execute,
\* advance clk.
run_cycle == cycle(4, 1)

\* Runtime::new(program) followed by the first n iterations of the loop of
\* Runtime::run, as one computation: the runtime they leave.
RECURSIVE run_of(_, _, _)
run_of(program, checks, n) ==
    IF n = 0
    THEN [clk |-> 0, pc |-> 0, memory |-> <<>>, memory_events |-> <<>>,
          alu_events |-> <<>>, panicked |-> FALSE]
    ELSE LET before == run_of(program, checks, n - 1)
         IN IF before.panicked \/ ~lt_u(before.pc, Len(program) * 4) THEN before
            ELSE LET rt == execute([before EXCEPT !.pc = @ + 4],
                                   program[(before.pc \div 4) + 1], checks)
                 IN IF rt.panicked THEN rt ELSE [rt EXCEPT !.clk = @ + 1]

\* Runtime::run returns when the loop condition fails.
run_return ==
    /\ status = "running"
    /\ ~run_condition
    /\ status' = "returned"
    /\ UNCHANGED <<clk, pc, code, registers, memory, memory_events, alu_events,
                   overflow_checks, last_cycle, record_vars,
                   values_vars>>

\* ---------------------------------------------------------- ExecutionRecord

\* Program values: the program of the execution, and the one Default builds.
TheProgram == "program"

DefaultProgram == "default"

\* The precompile streams split chunks, in the order of its split_events! calls,
\* each with the SplitOpts field that gives its threshold.
SplitStreams ==
    << <<"keccak_permute_events", "keccak">>,
       <<"secp256k1_add_events", "deferred">>,
       <<"secp256k1_double_events", "deferred">>,
       <<"bn254_add_events", "deferred">>,
       <<"bn254_double_events", "deferred">>,
       <<"bls12381_add_events", "deferred">>,
       <<"bls12381_double_events", "deferred">>,
       <<"sha_extend_events", "sha_extend">>,
       <<"sha_compress_events", "sha_compress">>,
       <<"ed_add_events", "deferred">>,
       <<"ed_decompress_events", "deferred">>,
       <<"k256_decompress_events", "deferred">>,
       <<"uint256_mul_events", "deferred">>,
       <<"bls12381_decompress_events", "deferred">> >>

PrecompileStreams == {SplitStreams[i][1] : i \in 1..Len(SplitStreams)}

\* The ALU streams, in the order register_nonces walks them.
AluStreams ==
    <<"add_events", "sub_events", "mul_events", "bitwise_events",
      "shift_left_events", "shift_right_events", "divrem_events", "lt_events">>

\* [0; 32]
ZeroBits == [i \in 0..31 |-> 0]

\* PublicValues::default(), with the fields split writes.
DefaultPublicValues ==
    [previous_init_addr_bits |-> ZeroBits, last_init_addr_bits |-> ZeroBits,
     previous_finalize_addr_bits |-> ZeroBits, last_finalize_addr_bits |-> ZeroBits]

\* ExecutionRecord::default(): every stream and map empty.
DefaultRecord ==
    [program |-> DefaultProgram,
     cpu_events |-> <<>>,
     add_events |-> <<>>,
     mul_events |-> <<>>,
     sub_events |-> <<>>,
     bitwise_events |-> <<>>,
     shift_left_events |-> <<>>,
     shift_right_events |-> <<>>,
     divrem_events |-> <<>>,
     lt_events |-> <<>>,
     byte_lookups |-> <<>>,
     sha_extend_events |-> <<>>,
     sha_compress_events |-> <<>>,
     keccak_permute_events |-> <<>>,
     ed_add_events |-> <<>>,
     ed_decompress_events |-> <<>>,
     secp256k1_add_events |-> <<>>,
     secp256k1_double_events |-> <<>>,
     bn254_add_events |-> <<>>,
     bn254_double_events |-> <<>>,
     k256_decompress_events |-> <<>>,
     bls12381_add_events |-> <<>>,
     bls12381_double_events |-> <<>>,
     uint256_mul_events |-> <<>>,
     memory_initialize_events |-> <<>>,
     memory_finalize_events |-> <<>>,
     bls12381_decompress_events |-> <<>>,
     public_values |-> DefaultPublicValues,
     nonce_lookup |-> <<>>]

\* ExecutionRecord::new(program).
ExecutionRecord_new(program) == [DefaultRecord EXCEPT !.program = program]

\* A variant of chunks_exact that yields its first chunk in every place.
chunks_exact_first_repeated(events, n) ==
    [k \in 1..(Len(events) \div n) |-> SubSeq(events, 1, n)]

\* slice::chunks_exact(n), n >= 1: the full chunks, in order.
chunks_exact(events, n) ==
    [k \in 1..(Len(events) \div n) |-> SubSeq(events, (k - 1) * n + 1, k * n)]

\* A variant of remainder that is the whole slice whenever something is left over.
chunks_remainder_whole(events, n) ==
    IF Len(events) % n = 0 THEN <<>> ELSE events

\* A variant of remainder that takes the leftover from the front of the slice.
chunks_remainder_from_front(events, n) ==
    SubSeq(events, 1, Len(events) % n)

\* ChunksExact::remainder: what is left after the full chunks.
chunks_remainder(events, n) ==
    SubSeq(events, (Len(events) \div n) * n + 1, Len(events))

\* A variant of chunks that leaves a partial last chunk out.
chunks_without_partial(events, n) == chunks_exact(events, n)

\* slice::chunks(n), n >= 1: as chunks_exact, then the remainder if there is one.
chunks(events, n) ==
    [k \in 1..((Len(events) + n - 1) \div n) |->
        SubSeq(events, (k - 1) * n + 1, IF k * n < Len(events) THEN k * n ELSE Len(events))]

\* A variant of the shard literal that leaves the program to Default::default().
event_shard_default_program(self, stream, events) ==
    [DefaultRecord EXCEPT ![stream] = events]

\* `ExecutionRecord { $events: ..., program: self.program.clone(), ..Default::default() }`
event_shard(self, stream, events) ==
    [DefaultRecord EXCEPT ![stream] = events, !.program = self.program]

\* One expansion of split_events!: the record and the shards after it.
split_events(self, stream, shard_list, threshold, exact) ==
    LET events == self[stream]
        remainder == chunks_remainder(events, threshold)
        full == chunks_exact(events, threshold)
        pushed == IF exact /\ remainder # <<>>
                  THEN Append(shard_list, event_shard(self, stream, remainder))
                  ELSE shard_list
        event_shards == [k \in 1..Len(full) |-> event_shard(self, stream, full[k])]
    IN [self |-> [self EXCEPT ![stream] = IF exact THEN <<>> ELSE remainder],
        shards |-> pushed \o event_shards]

\* The split_events! calls of split from the i-th on.
RECURSIVE split_streams(_, _, _, _, _)
split_streams(self, shard_list, i, split_opts, last) ==
    IF i > Len(SplitStreams) THEN [self |-> self, shards |-> shard_list]
    ELSE LET done == split_events(self, SplitStreams[i][1], shard_list,
                                  split_opts[SplitStreams[i][2]], last)
         IN split_streams(done.self, done.shards, i + 1, split_opts, last)

\* A variant of the sort that compares the addresses as i32.
RECURSIVE sort_by_addr_signed(_)
sort_by_addr_signed(events) ==
    IF events = <<>> THEN <<>>
    ELSE LET sorted == sort_by_addr_signed(SubSeq(events, 1, Len(events) - 1))
             e == events[Len(events)]
             n == Cardinality({i \in 1..Len(sorted) : sorted[i].addr <= e.addr})
         IN SubSeq(sorted, 1, n) \o <<e>> \o SubSeq(sorted, n + 1, Len(sorted))

\* Vec::sort_by_key(|event| event.addr): a stable sort by the u32 address.
RECURSIVE sort_by_addr(_)
sort_by_addr(events) ==
    IF events = <<>> THEN <<>>
    ELSE LET sorted == sort_by_addr(SubSeq(events, 1, Len(events) - 1))
             e == events[Len(events)]
             n == Cardinality({i \in 1..Len(sorted) : ~lt_u(e.addr, sorted[i].addr)})
         IN SubSeq(sorted, 1, n) \o <<e>> \o SubSeq(sorted, n + 1, Len(sorted))

\* core::array::from_fn(|i| (addr >> i) & 1)
addr_bits(addr) == [i \in 0..31 |-> shr_u32(addr, i) % 2]

\* The bits carried after a chunk: those of its last address, if it has one.
bits_after(chunk, bits) ==
    IF chunk = <<>> THEN bits ELSE addr_bits(chunk[Len(chunk)].addr)

\* A variant of the loop body that assigns the previous bits after the carried
\* bits were updated from the chunk.
memory_shard_previous_after_update(self, mem_init_chunk, mem_finalize_chunk, init_addr_bits, finalize_addr_bits) ==
    [DefaultRecord EXCEPT
        !.program = self.program,
        !.memory_initialize_events = mem_init_chunk,
        !.memory_finalize_events = mem_finalize_chunk,
        !.public_values =
            [previous_init_addr_bits |-> bits_after(mem_init_chunk, init_addr_bits),
             last_init_addr_bits |-> bits_after(mem_init_chunk, init_addr_bits),
             previous_finalize_addr_bits |-> bits_after(mem_finalize_chunk, finalize_addr_bits),
             last_finalize_addr_bits |-> bits_after(mem_finalize_chunk, finalize_addr_bits)]]

\* The body of the loop over the zipped memory chunks: the shard built from one
\* pair of chunks, given the bits carried into it.
memory_shard(self, mem_init_chunk, mem_finalize_chunk, init_addr_bits, finalize_addr_bits) ==
    [DefaultRecord EXCEPT
        !.program = self.program,
        !.memory_initialize_events = mem_init_chunk,
        !.memory_finalize_events = mem_finalize_chunk,
        !.public_values =
            [previous_init_addr_bits |-> init_addr_bits,
             last_init_addr_bits |-> bits_after(mem_init_chunk, init_addr_bits),
             previous_finalize_addr_bits |-> finalize_addr_bits,
             last_finalize_addr_bits |-> bits_after(mem_finalize_chunk, finalize_addr_bits)]]

\* The loop over zip_longest of the two chunk lists, from the k-th pair on: a
\* side that has run out contributes the empty slice.
RECURSIVE memory_shards(_, _, _, _, _, _)
memory_shards(self, init_chunks, finalize_chunks, k, init_addr_bits, finalize_addr_bits) ==
    IF k > Len(init_chunks) /\ k > Len(finalize_chunks) THEN <<>>
    ELSE LET mem_init_chunk == IF k <= Len(init_chunks) THEN init_chunks[k] ELSE <<>>
             mem_finalize_chunk ==
                 IF k <= Len(finalize_chunks) THEN finalize_chunks[k] ELSE <<>>
             shard == memory_shard(self, mem_init_chunk, mem_finalize_chunk,
                                   init_addr_bits, finalize_addr_bits)
         IN <<shard>> \o
            memory_shards(self, init_chunks, finalize_chunks, k + 1,
                          shard.public_values.last_init_addr_bits,
                          shard.public_values.last_finalize_addr_bits)

\* ExecutionRecord::split: the record afterwards and the shards returned.
split(self, last, split_opts) ==
    LET streams == split_streams(self, <<>>, 1, split_opts, last)
        sorted == [streams.self EXCEPT
                      !.memory_initialize_events = sort_by_addr(@),
                      !.memory_finalize_events = sort_by_addr(@)]
    IN IF last
       THEN [self |-> sorted,
             shards |-> streams.shards \o
                 memory_shards(sorted,
                               chunks(sorted.memory_initialize_events, split_opts.memory),
                               chunks(sorted.memory_finalize_events, split_opts.memory),
                               1, ZeroBits, ZeroBits)]
       ELSE streams

\* The stream the match of add_alu_events appends the events of an opcode to;
\* "" for the `_` arm, which panics.
alu_stream_of(opcode) ==
    CASE opcode = "ADD" -> "add_events"
      [] opcode \in {"MUL", "MULH", "MULHU", "MULHSU"} -> "mul_events"
      [] opcode = "SUB" -> "sub_events"
      [] opcode \in {"XOR", "OR", "AND"} -> "bitwise_events"
      [] opcode = "SLL" -> "shift_left_events"
      [] opcode \in {"SRL", "SRA"} -> "shift_right_events"
      [] opcode \in {"SLT", "SLTU"} -> "lt_events"
      [] OTHER -> ""

\* ExecutionRecord::add_alu_events: the loop over the map, whose keys come in
\* the order the HashMap yields them; the record is as the loop left it, also
\* when an arm panicked.
RECURSIVE add_alu_events(_, _, _)
add_alu_events(self, alu_event_map, order) ==
    IF order = <<>> THEN [self |-> self, panicked |-> FALSE]
    ELSE LET stream == alu_stream_of(Head(order))
         IN IF stream = "" THEN [self |-> self, panicked |-> TRUE]
            ELSE add_alu_events([self EXCEPT ![stream] = @ \o alu_event_map[Head(order)]],
                                alu_event_map, Tail(order))

\* The streams defer takes out of the record.
DeferStreams == PrecompileStreams \cup {"memory_initialize_events", "memory_finalize_events"}

\* A variant of defer that leaves the memory events on the record.
defer_without_memory_events(self) ==
    [self |-> [f \in DOMAIN self |-> IF f \in PrecompileStreams THEN <<>> ELSE self[f]],
     deferred |-> [f \in DOMAIN DefaultRecord |->
                      IF f \in PrecompileStreams THEN self[f] ELSE DefaultRecord[f]]]

\* ExecutionRecord::defer: the record afterwards and the record returned, which
\* is Default::default() but for the streams taken.
defer(self) ==
    [self |-> [f \in DOMAIN self |-> IF f \in DeferStreams THEN <<>> ELSE self[f]],
     deferred |-> [f \in DOMAIN DefaultRecord |->
                      IF f \in DeferStreams THEN self[f] ELSE DefaultRecord[f]]]

\* The streams stats counts under their own names.
StatsStreams ==
    {"cpu_events", "add_events", "mul_events", "sub_events", "bitwise_events",
     "shift_left_events", "shift_right_events", "divrem_events", "lt_events",
     "sha_extend_events", "sha_compress_events", "keccak_permute_events",
     "ed_add_events", "ed_decompress_events", "secp256k1_add_events",
     "secp256k1_double_events", "bn254_add_events", "bn254_double_events",
     "k256_decompress_events", "bls12381_add_events", "bls12381_double_events",
     "uint256_mul_events", "bls12381_decompress_events",
     "memory_initialize_events", "memory_finalize_events"}

\* The value stats inserts under "byte_lookups" when cpu_events is not empty:
\* `self.byte_lookups.get(&shard).map_or(0, HashMap::len)` for the shard of the
\* first cpu event.
stats_byte_lookups(self) ==
    LET shard == self.cpu_events[1].shard
    IN IF shard \in DOMAIN self.byte_lookups
       THEN Cardinality(DOMAIN self.byte_lookups[shard]) ELSE 0

\* A variant of stats without `stats.retain(|_, v| *v != 0)`.
stats_unfiltered(self) ==
    [name \in StatsStreams \cup (IF self.cpu_events # <<>> THEN {"byte_lookups"} ELSE {}) |->
        IF name = "byte_lookups" THEN stats_byte_lookups(self) ELSE Len(self[name])]

\* ExecutionRecord::stats: the map returned.
stats(self) ==
    LET inserted ==
            [name \in StatsStreams \cup (IF self.cpu_events # <<>> THEN {"byte_lookups"} ELSE {}) |->
                IF name = "byte_lookups" THEN stats_byte_lookups(self) ELSE Len(self[name])]
    IN [name \in {n \in DOMAIN inserted : inserted[n] # 0} |-> inserted[name]]

\* The event streams append moves from other to self.
AppendStreams ==
    {"cpu_events", "add_events", "sub_events", "mul_events", "bitwise_events",
     "shift_left_events", "shift_right_events", "divrem_events", "lt_events",
     "sha_extend_events", "sha_compress_events", "keccak_permute_events",
     "ed_add_events", "ed_decompress_events", "secp256k1_add_events",
     "secp256k1_double_events", "bn254_add_events", "bn254_double_events",
     "k256_decompress_events", "bls12381_add_events", "bls12381_double_events",
     "uint256_mul_events", "bls12381_decompress_events",
     "memory_initialize_events", "memory_finalize_events"}

\* The multiplicity of a byte-lookup event in a shard of a byte_lookups map.
lookup_count(byte_lookups, shard, event) ==
    IF shard \in DOMAIN byte_lookups /\ event \in DOMAIN byte_lookups[shard]
    THEN byte_lookups[shard][event]
    ELSE 0

\* events::add_sharded_byte_lookup_events with one map to add: counts are summed
\* per shard and event.
add_sharded_byte_lookup_events(sharded_blu_events, new_events) ==
    [shard \in DOMAIN sharded_blu_events \cup DOMAIN new_events |->
        LET mine == IF shard \in DOMAIN sharded_blu_events
                    THEN DOMAIN sharded_blu_events[shard] ELSE {}
            theirs == IF shard \in DOMAIN new_events
                      THEN DOMAIN new_events[shard] ELSE {}
        IN [event \in mine \cup theirs |->
               lookup_count(sharded_blu_events, shard, event)
                   + lookup_count(new_events, shard, event)]]

\* A variant of the byte_lookups step that always takes other's map.
append_byte_lookups_overwrite(self_lookups, other_lookups) ==
    [self |-> other_lookups, other |-> <<>>]

\* The byte_lookups step of append: an empty map takes other's (which is left
\* empty), any other map has other's added to it (and other keeps its own).
append_byte_lookups(self_lookups, other_lookups) ==
    IF DOMAIN self_lookups = {}
    THEN [self |-> other_lookups, other |-> <<>>]
    ELSE [self |-> add_sharded_byte_lookup_events(self_lookups, other_lookups),
          other |-> other_lookups]

\* A variant of append that puts other's events in front of self's.
append_other_first(self, other_record) ==
    LET lookups == append_byte_lookups(self.byte_lookups, other_record.byte_lookups)
    IN [self |-> [f \in DOMAIN self |->
                     IF f \in AppendStreams THEN other_record[f] \o self[f]
                     ELSE IF f = "byte_lookups" THEN lookups.self
                     ELSE self[f]],
        other |-> [f \in DOMAIN other_record |->
                     IF f \in AppendStreams THEN <<>>
                     ELSE IF f = "byte_lookups" THEN lookups.other
                     ELSE other_record[f]]]

\* ExecutionRecord::append: self and other afterwards.
append(self, other_record) ==
    LET lookups == append_byte_lookups(self.byte_lookups, other_record.byte_lookups)
    IN [self |-> [f \in DOMAIN self |->
                     IF f \in AppendStreams THEN self[f] \o other_record[f]
                     ELSE IF f = "byte_lookups" THEN lookups.self
                     ELSE self[f]],
        other |-> [f \in DOMAIN other_record |->
                     IF f \in AppendStreams THEN <<>>
                     ELSE IF f = "byte_lookups" THEN lookups.other
                     ELSE other_record[f]]]

\* ByteRecord::add_byte_lookup_event:
\* `*entry(shard).or_default().entry(blu_event).or_insert(0) += 1`.
add_byte_lookup_event(self, blu_event) ==
    LET shard == blu_event.shard
        inner == IF shard \in DOMAIN self.byte_lookups
                 THEN self.byte_lookups[shard] ELSE <<>>
        counted == [e \in DOMAIN inner \cup {blu_event} |->
                       lookup_count(self.byte_lookups, shard, e)
                           + (IF e = blu_event THEN 1 ELSE 0)]
    IN [self EXCEPT !.byte_lookups =
           [s \in DOMAIN self.byte_lookups \cup {shard} |->
               IF s = shard THEN counted ELSE self.byte_lookups[s]]]

\* HashMap::insert.
nonce_insert(nonce_lookup, lookup_id, nonce) ==
    [k \in DOMAIN nonce_lookup \cup {lookup_id} |->
        IF k = lookup_id THEN nonce ELSE nonce_lookup[k]]

\* A variant that numbers the events of a stream from its end.
nonce_of_descending(self, stream, i) ==
    IF stream = "sub_events" THEN Len(self.add_events) + Len(self.sub_events) - 1 - i
    ELSE Len(self[stream]) - 1 - i

\* A variant that numbers the events of a stream from 1.
nonce_of_one_based(self, stream, i) ==
    IF stream = "sub_events" THEN Len(self.add_events) + i + 1 ELSE i + 1

\* The nonce register_nonces gives the event at 0-based position i of a stream:
\* the sub events are numbered after the add events, every other stream from 0.
nonce_of(self, stream, i) ==
    IF stream = "sub_events" THEN Len(self.add_events) + i ELSE i

\* One `iter().enumerate().for_each(...)` of register_nonces, from position i on.
RECURSIVE register_stream(_, _, _, _)
register_stream(self, nonce_lookup, stream, i) ==
    IF i >= Len(self[stream]) THEN nonce_lookup
    ELSE register_stream(self,
                         nonce_insert(nonce_lookup, self[stream][i + 1].lookup_id,
                                      nonce_of(self, stream, i)),
                         stream, i + 1)

\* The passes of register_nonces from the k-th ALU stream on.
RECURSIVE register_streams(_, _, _)
register_streams(self, nonce_lookup, k) ==
    IF k > Len(AluStreams) THEN nonce_lookup
    ELSE register_streams(self, register_stream(self, nonce_lookup, AluStreams[k], 0),
                          k + 1)

\* ExecutionRecord::register_nonces.
register_nonces(self) ==
    [self EXCEPT !.nonce_lookup = register_streams(self, @, 1)]

\* ------------------------------------------------------ the records worked on

\* Events.  A precompile event is named by an id; an ALU event carries its
\* lookup_id; a memory event its addr and a value that tells events apart.
PrecompileEvent(id) == [id |-> id]

LookupAluEvent(lookup_id) == [lookup_id |-> lookup_id]

MemoryInitializeFinalizeEvent(addr, value) == [addr |-> addr, value |-> value]

ByteLookupEvent(shard, b) == [shard |-> shard, b |-> b]

\* A cpu event, with the shard it belongs to.
CpuEvent(shard) == [shard |-> shard]

\* n precompile events with the ids first, first + 1, ...
EventRun(first, n) == [i \in 1..n |-> PrecompileEvent(first + i - 1)]

\* The addresses of memory events: two small ones and 0x80000000.
MemAddrs == {1, 2, I32_MIN}

\* The lists of up to n memory events over MemAddrs, in any order, repeats included.
MemEventLists(n) ==
    UNION {{[i \in 1..k |-> MemoryInitializeFinalizeEvent(a[i], i)] : a \in [1..k -> MemAddrs]}
           : k \in 0..n}

\* SplitOpts with every threshold 1.
UnitOpts == [keccak |-> 1, deferred |-> 1, sha_extend |-> 1, sha_compress |-> 1, memory |-> 1]

\* Records to split whose precompile streams vary: keccak and secp256k1_add
\* events, with or without two memory events on each list.
PrecompileCases ==
    {[record |-> [ExecutionRecord_new(TheProgram) EXCEPT
                     !.keccak_permute_events = EventRun(1, n1),
                     !.secp256k1_add_events = EventRun(n1 + 1, n2),
                     !.memory_initialize_events = mem,
                     !.memory_finalize_events = mem],
      opts |-> [UnitOpts EXCEPT !.keccak = k, !.deferred = d]]
     : n1 \in 0..MaxEvents, n2 \in 0..(MaxChunk + 1), k \in 1..MaxChunk, d \in 1..MaxChunk,
       mem \in {<<>>, <<MemoryInitializeFinalizeEvent(2, 1),
                        MemoryInitializeFinalizeEvent(1, 2)>>}}

\* Records to split whose memory lists vary, with or without one keccak event.
MemoryCases ==
    {[record |-> [ExecutionRecord_new(TheProgram) EXCEPT
                     !.keccak_permute_events = EventRun(1, n1),
                     !.memory_initialize_events = init,
                     !.memory_finalize_events = finalize],
      opts |-> [UnitOpts EXCEPT !.memory = m]]
     : n1 \in 0..1, m \in 1..MaxChunk,
       init \in MemEventLists(MaxMemEvents), finalize \in MemEventLists(MaxMemEvents - 1)}

\* The ALU events of a record whose k-th ALU stream holds len[k] events: the
\* lookup_ids are pairwise distinct.
RECURSIVE alu_filled(_, _, _, _)
alu_filled(self, len, k, first) ==
    IF k > Len(AluStreams) THEN self
    ELSE alu_filled([self EXCEPT ![AluStreams[k]] =
                        [i \in 1..len[k] |-> LookupAluEvent(first + i - 1)]],
                    len, k + 1, first + len[k])

RECURSIVE total(_, _)
total(len, k) == IF k = 0 THEN 0 ELSE len[k] + total(len, k - 1)

AluLengths ==
    {len \in [1..Len(AluStreams) -> 0..MaxAluEvents] :
        total(len, Len(AluStreams)) <= MaxAluEvents}

\* Records whose ALU streams vary; other is empty or holds one add event, one
\* sub event, one keccak event and memory events of its own.
AluCases ==
    {[record |-> alu_filled(ExecutionRecord_new(TheProgram), len, 1, 1),
      other |-> o]
     : len \in AluLengths,
       o \in {ExecutionRecord_new(TheProgram),
              [ExecutionRecord_new(TheProgram) EXCEPT
                  !.add_events = <<LookupAluEvent(101)>>,
                  !.sub_events = <<LookupAluEvent(102)>>,
                  !.keccak_permute_events = EventRun(103, 1),
                  !.memory_initialize_events = <<MemoryInitializeFinalizeEvent(2, 1)>>,
                  !.memory_finalize_events = <<MemoryInitializeFinalizeEvent(1, 1)>>]}}

\* The byte-lookup events and the maps over them: each event counted once or absent.
LookupEvents == {ByteLookupEvent(shard, b) : shard \in 1..2, b \in 1..2}

lookups_of(events) ==
    [shard \in {e.shard : e \in events} |-> [e \in {x \in events : x.shard = shard} |-> 1]]

LookupCases ==
    {[record |-> [ExecutionRecord_new(TheProgram) EXCEPT
                     !.byte_lookups = lookups_of(mine), !.cpu_events = cpu],
      other |-> [ExecutionRecord_new(TheProgram) EXCEPT !.byte_lookups = lookups_of(theirs)]]
     : mine \in SUBSET LookupEvents, theirs \in SUBSET LookupEvents,
       cpu \in {<<>>, <<CpuEvent(1)>>}}

\* The ALU opcodes of the executor, the keys of the map add_alu_events takes.
AluOpcodeKeys ==
    {"ADD", "SUB", "MUL", "MULH", "MULHU", "MULHSU", "XOR", "OR", "AND", "SLL",
     "SRL", "SRA", "SLT", "SLTU", "DIV", "DIVU", "REM", "REMU"}

\* The maps handed to add_alu_events: one opcode with two events, or two
\* opcodes, the first with two events and the second with one.
AluEventMaps ==
    {[opcode \in {key} |-> <<LookupAluEvent(201), LookupAluEvent(202)>>]
     : key \in AluOpcodeKeys}
    \cup
    {[opcode \in {pair[1], pair[2]} |->
         IF opcode = pair[1] THEN <<LookupAluEvent(201), LookupAluEvent(202)>>
         ELSE <<LookupAluEvent(203)>>]
     : pair \in {<<"MUL", "MULH">>, <<"SRA", "SRL">>, <<"ADD", "SUB">>,
                 <<"XOR", "DIV">>, <<"REMU", "SLT">>}}

\* The orders in which a HashMap may yield a set of keys.
key_orders(keys) ==
    {order \in [1..Cardinality(keys) -> keys] :
        \A i, j \in 1..Cardinality(keys) : order[i] = order[j] => i = j}

\* The history value before any call.
NoCall == [op |-> "none", last |-> FALSE, self |-> DefaultRecord, other |-> DefaultRecord]

\* ------------------------------------------------------------ record actions

\* self.split(last, opts)
split_call ==
    \E last \in BOOLEAN :
        LET done == split(record, last, opts)
        IN /\ record' = done.self
           /\ shards' = done.shards
           /\ last_call' = [op |-> "split", last |-> last, self |-> record, other |-> other]
           /\ UNCHANGED <<other, opts, calls, runtime_vars, values_vars>>

\* self.append(&mut other)
append_call ==
    /\ calls < MaxCalls
    /\ LET done == append(record, other)
       IN /\ record' = done.self
          /\ other' = done.other
    /\ calls' = calls + 1
    /\ last_call' = [op |-> "append", last |-> FALSE, self |-> record, other |-> other]
    /\ UNCHANGED <<opts, shards, runtime_vars, values_vars>>

\* self.register_nonces(opts)
register_nonces_call ==
    /\ calls < MaxCalls
    /\ record' = register_nonces(record)
    /\ calls' = calls + 1
    /\ last_call' = [op |-> "register_nonces", last |-> FALSE, self |-> record, other |-> other]
    /\ UNCHANGED <<other, opts, shards, runtime_vars, values_vars>>

\* self.add_byte_lookup_event(blu_event)
add_byte_lookup_event_call ==
    /\ calls < MaxCalls
    /\ \E blu_event \in LookupEvents : record' = add_byte_lookup_event(record, blu_event)
    /\ calls' = calls + 1
    /\ last_call' = [op |-> "add_byte_lookup_event", last |-> FALSE,
                     self |-> record, other |-> other]
    /\ UNCHANGED <<other, opts, shards, runtime_vars, values_vars>>

\* self.add_alu_events(alu_events)
add_alu_events_call ==
    /\ calls < MaxCalls
    /\ last_call.op = "add_alu_events" => ~last_call.panicked
    /\ \E alu_event_map \in AluEventMaps :
           \E order \in key_orders(DOMAIN alu_event_map) :
               LET done == add_alu_events(record, alu_event_map, order)
               IN /\ record' = done.self
                  /\ last_call' = [op |-> "add_alu_events", last |-> FALSE, self |-> record,
                                   other |-> other, alu_events |-> alu_event_map,
                                   panicked |-> done.panicked]
    /\ calls' = calls + 1
    /\ UNCHANGED <<other, opts, shards, runtime_vars, values_vars>>

\* let deferred = self.defer()
defer_call ==
    /\ calls < MaxCalls
    /\ LET done == defer(record)
       IN /\ record' = done.self
          /\ last_call' = [op |-> "defer", last |-> FALSE, self |-> record, other |-> other,
                           deferred |-> done.deferred]
    /\ calls' = calls + 1
    /\ UNCHANGED <<other, opts, shards, runtime_vars, values_vars>>

\* let stats = self.stats()
stats_call ==
    /\ calls < MaxCalls
    /\ last_call' = [op |-> "stats", last |-> FALSE, self |-> record, other |-> other,
                     stats |-> stats(record)]
    /\ calls' = calls + 1
    /\ UNCHANGED <<record, other, opts, shards, runtime_vars, values_vars>>

\* ------------------------------------------------------------ PublicValues

PV_DIGEST_NUM_WORDS == 8

POSEIDON_NUM_WORDS == 8

\* size_of::<PublicValues<Word<u8>, u8>>(): the digest words of 4 bytes each,
\* the deferred digest and the 8 scalars, one byte each.
SP1_PROOF_NUM_PV_ELTS == PV_DIGEST_NUM_WORDS * 4 + POSEIDON_NUM_WORDS + 8

\* The field F: a prime field of more than 256 elements; an element is written
\* as its canonical value in 0 .. FieldOrder - 1.
FieldOrder == 2013265921

from_canonical_u32(n) == n % FieldOrder

as_canonical_u32(f) == f

\* Word::from(u32): the four little-endian bytes of the word, each as a field
\* element.
Word_from(word) == [k \in 1..4 |-> from_canonical_u32(byte_of(word, k - 1))]

\* The scalar fields of PublicValues in declaration order.
ScalarFields ==
    <<"start_pc", "next_pc", "exit_code", "shard", "previous_init_addr",
      "last_init_addr", "previous_finalize_addr", "last_finalize_addr">>

\* From<PublicValues<u32, u32>> for PublicValues<Word<F>, F>.
PublicValues_from(value) ==
    [field \in DOMAIN value |->
        CASE field = "committed_value_digest" ->
                 [i \in 1..PV_DIGEST_NUM_WORDS |-> Word_from(value.committed_value_digest[i])]
          [] field = "deferred_proofs_digest" ->
                 [i \in 1..POSEIDON_NUM_WORDS |->
                     from_canonical_u32(value.deferred_proofs_digest[i])]
          [] OTHER -> from_canonical_u32(value[field])]

\* The elements of a PublicValues<Word<T>, T> as #[repr(C)] lays them out: the
\* fields in declaration order, the elements of an array and of a Word in
\* index order.
layout(value) ==
    [i \in 1..(4 * PV_DIGEST_NUM_WORDS) |->
        value.committed_value_digest[((i - 1) \div 4) + 1][((i - 1) % 4) + 1]]
    \o value.deferred_proofs_digest
    \o [k \in 1..Len(ScalarFields) |-> value[ScalarFields[k]]]

\* Whether <[T] as BorrowMut<PublicValues<Word<T>, T>>>::borrow_mut panics on a
\* slice of len elements: with debug assertions the length has to be
\* size_of::<PublicValues<Word<u8>, u8>>() and align_to_mut has to give one
\* struct; in every build shorts[0] needs at least one.
borrow_mut_panics(len, debug) ==
    \/ debug /\ len # SP1_PROOF_NUM_PV_ELTS
    \/ debug /\ len \div SP1_PROOF_NUM_PV_ELTS # 1
    \/ len \div SP1_PROOF_NUM_PV_ELTS = 0

\* PublicValues::<u32, u32>::to_vec: ret is what it returns when it does not
\* panic.
to_vec(self, max, debug) ==
    LET zeros == [i \in 1..max |-> 0]
        field_values == layout(PublicValues_from(self))
    IN IF borrow_mut_panics(Len(zeros), debug)
       THEN [panicked |-> TRUE, ret |-> <<>>]
       ELSE [panicked |-> FALSE,
             ret |-> [i \in 1..max |->
                         IF i <= SP1_PROOF_NUM_PV_ELTS THEN field_values[i] ELSE zeros[i]]]

\* A variant that reads each word from its far end.
commit_digest_bytes_big_endian(self) ==
    [i \in 1..(4 * PV_DIGEST_NUM_WORDS) |->
        as_u8(as_canonical_u32(
            self.committed_value_digest[((i - 1) \div 4) + 1][4 - ((i - 1) % 4)]))]

\* PublicValues::<Word<T>, T>::commit_digest_bytes: the flat_map over the words
\* and over the elements of each word, each element `as_canonical_u32() as u8`.
commit_digest_bytes(self) ==
    [i \in 1..(4 * PV_DIGEST_NUM_WORDS) |->
        as_u8(as_canonical_u32(
            self.committed_value_digest[((i - 1) \div 4) + 1][((i - 1) % 4) + 1]))]

\* The public values worked on.  A digest of eight different words, one of
\* them of a chosen value; deferred digest and scalars that differ from field
\* to field.
DigestWords == {0, 255, 256, 16909060, I32_MIN, U32_MAX}

PublicValuesCases ==
    {[committed_value_digest |->
          [i \in 1..PV_DIGEST_NUM_WORDS |-> IF i = k THEN word ELSE 16843009 * i],
      deferred_proofs_digest |-> [i \in 1..POSEIDON_NUM_WORDS |-> first + i],
      start_pc |-> first + 10, next_pc |-> first + 14, exit_code |-> exit,
      shard |-> first + 1, previous_init_addr |-> first + 20,
      last_init_addr |-> first + 30, previous_finalize_addr |-> first + 40,
      last_finalize_addr |-> first + 50]
     : k \in 1..PV_DIGEST_NUM_WORDS, word \in DigestWords,
       first \in {0, 1000}, exit \in {0, 1}}

\* The values PROOF_MAX_NUM_PVS is taken from: the size of the struct itself
\* and larger ones.
MaxNumPvsChoices ==
    {SP1_PROOF_NUM_PV_ELTS, SP1_PROOF_NUM_PV_ELTS + 1, 2 * SP1_PROOF_NUM_PV_ELTS}

NoValuesCall == [op |-> "none", panicked |-> FALSE, ret |-> <<>>]

to_vec_call ==
    /\ values_call' = [op |-> "to_vec"] @@ to_vec(values, max_num_pvs, debug_assertions)
    /\ UNCHANGED <<values, max_num_pvs, debug_assertions, runtime_vars, record_vars>>

commit_digest_bytes_call ==
    /\ values_call' = [op |-> "commit_digest_bytes", panicked |-> FALSE,
                       ret |-> commit_digest_bytes(PublicValues_from(values))]
    /\ UNCHANGED <<values, max_num_pvs, debug_assertions, runtime_vars, record_vars>>

\* ----------------------------------------------------------- specifications

\* No runtime is running.
RuntimeIdle ==
    /\ code = <<>>
    /\ overflow_checks = FALSE
    /\ clk = 0
    /\ pc = 0
    /\ registers = [r \in 0..31 |-> 0]
    /\ memory = <<>>
    /\ memory_events = <<>>
    /\ alu_events = <<>>
    /\ status = "idle"
    /\ last_cycle = NoCycle

\* No record is worked on.
RecordIdle ==
    /\ record = DefaultRecord
    /\ other = DefaultRecord
    /\ opts = UnitOpts
    /\ shards = <<>>
    /\ calls = 0
    /\ last_call = NoCall

\* No public values are worked on.
ValuesIdle ==
    /\ values = [committed_value_digest |-> [i \in 1..PV_DIGEST_NUM_WORDS |-> 0],
                 deferred_proofs_digest |-> [i \in 1..POSEIDON_NUM_WORDS |-> 0]]
                @@ [field \in {ScalarFields[k] : k \in 1..Len(ScalarFields)} |-> 0]
    /\ max_num_pvs = SP1_PROOF_NUM_PV_ELTS
    /\ debug_assertions = FALSE
    /\ values_call = NoValuesCall

\* The interpreter: a runtime is built on a program and run.
Init == RuntimeInit /\ RecordIdle /\ ValuesIdle

Next == run_enter \/ run_cycle \/ run_return

Spec == Init /\ [][Next]_vars

\* The splitter: split is called, any number of times, on a record.
InitSplit ==
    /\ RuntimeIdle
    /\ ValuesIdle
    /\ \E case \in PrecompileCases \cup MemoryCases :
           /\ record = case.record
           /\ opts = case.opts
    /\ other = DefaultRecord
    /\ shards = <<>>
    /\ calls = 0
    /\ last_call = NoCall

NextSplit == split_call

SpecSplit == InitSplit /\ [][NextSplit]_vars

\* The record: up to MaxCalls calls of append, register_nonces,
\* add_byte_lookup_event, defer and stats on a record.
InitRecord ==
    /\ RuntimeIdle
    /\ ValuesIdle
    /\ \E case \in AluCases \cup LookupCases :
           /\ record = case.record
           /\ other = case.other
    /\ opts = UnitOpts
    /\ shards = <<>>
    /\ calls = 0
    /\ last_call = NoCall

NextRecord ==
    \/ append_call
    \/ register_nonces_call
    \/ add_byte_lookup_event_call
    \/ defer_call
    \/ stats_call

SpecRecord == InitRecord /\ [][NextRecord]_vars

\* The ALU batches: add_alu_events is called, up to MaxCalls times, on a record
\* that is empty or already holds one ALU event.
InitAlu ==
    /\ RuntimeIdle
    /\ ValuesIdle
    /\ \E len \in {len \in AluLengths : total(len, Len(AluStreams)) <= 1} :
           record = alu_filled(ExecutionRecord_new(TheProgram), len, 1, 1)
    /\ other = DefaultRecord
    /\ opts = UnitOpts
    /\ shards = <<>>
    /\ calls = 0
    /\ last_call = NoCall

NextAlu == add_alu_events_call

SpecAlu == InitAlu /\ [][NextAlu]_vars

\* The public values: to_vec and commit_digest_bytes are called on a value, in
\* a build with or without debug assertions.
InitValues ==
    /\ RuntimeIdle
    /\ RecordIdle
    /\ values \in PublicValuesCases
    /\ max_num_pvs \in MaxNumPvsChoices
    /\ debug_assertions \in BOOLEAN
    /\ values_call = NoValuesCall

NextValues == to_vec_call \/ commit_digest_bytes_call

SpecValues == InitValues /\ [][NextValues]_vars

\* ------------------------------------------------------------------ claims

\* The events of one stream over a list of shards, concatenated in list order.
RECURSIVE stream_concat(_, _)
stream_concat(shard_list, stream) ==
    IF shard_list = <<>> THEN <<>>
    ELSE Head(shard_list)[stream] \o stream_concat(Tail(shard_list), stream)

\* The sizes of the shards of a list that hold events of one stream, in list order.
RECURSIVE stream_sizes(_, _)
stream_sizes(shard_list, stream) ==
    IF shard_list = <<>> THEN <<>>
    ELSE (IF Head(shard_list)[stream] = <<>> THEN <<>>
          ELSE <<Len(Head(shard_list)[stream])>>)
         \o stream_sizes(Tail(shard_list), stream)

\* The threshold split uses for a precompile stream.
threshold_of(stream) ==
    LET i == CHOOSE j \in 1..Len(SplitStreams) : SplitStreams[j][1] = stream
    IN opts[SplitStreams[i][2]]

AfterSplit(last) == last_call.op = "split" /\ last_call.last = last

\* C1: at every cycle boundary of Runtime::run the value held for register x0,
\* the value the next read of x0 returns, is 0, also after an instruction whose
\* destination is x0 wrote a non-zero value.
C1_X0ZeroAtCycleBoundary ==
    status \in {"running", "returned"} => register_value(memory, 0) = 0

\* C2: after split(last = true) the events of every precompile stream,
\* concatenated over the returned shards in the order they are returned, are the
\* stream as it was before the call.
C2_ConcatInReturnedOrder ==
    AfterSplit(TRUE) =>
        \A stream \in PrecompileStreams :
            stream_concat(shards, stream) = last_call.self[stream]

\* C3: after split(last = true), a stream that held q*N + r events
\* (q >= 1, 0 < r < N, N its chunk size) has q + 1 shards of sizes N, ..., N, r in
\* returned order: the partial shard is the last one.
C3_PartialShardLast ==
    AfterSplit(TRUE) =>
        \A stream \in PrecompileStreams :
            LET len == Len(last_call.self[stream])
                n == threshold_of(stream)
                q == len \div n
                r == len % n
            IN (q >= 1 /\ r > 0) =>
                   stream_sizes(shards, stream) = [k \in 1..(q + 1) |-> IF k <= q THEN n ELSE r]

\* C4: after split(last = false), a stream that held q*N + r events (0 <= r < N)
\* has exactly q shards, each of N events, and the source record keeps exactly
\* the last r events of the stream, in order.
C4_RemainderStaysOnSource ==
    AfterSplit(FALSE) =>
        \A stream \in PrecompileStreams :
            LET before == last_call.self[stream]
                n == threshold_of(stream)
                q == Len(before) \div n
            IN /\ stream_sizes(shards, stream) = [k \in 1..q |-> n]
               /\ record[stream] = SubSeq(before, q * n + 1, Len(before))

\* A split(last = false) of five keccak events with chunk size 2: two shards
\* returned, one event kept.
C4_Witness ==
    /\ AfterSplit(FALSE)
    /\ Len(last_call.self.keccak_permute_events) = 5
    /\ opts.keccak = 2
    /\ Len(shards) >= 2
    /\ Len(record.keccak_permute_events) = 1

\* C5: in the vector split(last = true) returns, each shard's
\* previous_init_addr_bits are its predecessor's last_init_addr_bits, and each
\* shard's previous_finalize_addr_bits its predecessor's last_finalize_addr_bits.
C5_Stitching ==
    AfterSplit(TRUE) =>
        \A k \in 1..(Len(shards) - 1) :
            /\ shards[k + 1].public_values.previous_init_addr_bits
                   = shards[k].public_values.last_init_addr_bits
            /\ shards[k + 1].public_values.previous_finalize_addr_bits
                   = shards[k].public_values.last_finalize_addr_bits

\* A split(last = true) that returns a precompile shard and then two memory
\* shards whose initialize and finalize bits move on from one to the next.
C5_Witness ==
    /\ AfterSplit(TRUE)
    /\ \E k \in 2..(Len(shards) - 1) :
           /\ shards[k].public_values.last_init_addr_bits # ZeroBits
           /\ shards[k + 1].public_values.last_init_addr_bits
                  # shards[k].public_values.last_init_addr_bits
           /\ shards[k].public_values.last_finalize_addr_bits # ZeroBits
           /\ shards[k + 1].public_values.last_finalize_addr_bits
                  # shards[k].public_values.last_finalize_addr_bits

\* Whether the addresses of a list of memory events ascend, strictly or not, in
\* the order of u32.
ascending(events, strictly) ==
    \A i \in 1..(Len(events) - 1) :
        IF strictly THEN lt_u(events[i].addr, events[i + 1].addr)
        ELSE ~lt_u(events[i + 1].addr, events[i].addr)

distinct_addrs(events) ==
    \A i, j \in 1..Len(events) : i # j => events[i].addr # events[j].addr

\* C6 as claimed: after split(last = true) on any record, the initialize events
\* and the finalize events of the returned shards ascend strictly by address,
\* within each shard and from one shard to the next.
C6_StrictlyAscending ==
    AfterSplit(TRUE) =>
        /\ ascending(stream_concat(shards, "memory_initialize_events"), TRUE)
        /\ ascending(stream_concat(shards, "memory_finalize_events"), TRUE)

\* C6 as amended: after split(last = true) the initialize events and the finalize
\* events of the returned shards ascend by address, within each shard and from
\* one shard to the next, events of one address keeping their order; they ascend
\* strictly when the addresses of the record's list are pairwise distinct.
C6_Ascending ==
    AfterSplit(TRUE) =>
        \A list \in {"memory_initialize_events", "memory_finalize_events"} :
            LET out == stream_concat(shards, list)
            IN /\ ascending(out, FALSE)
               /\ distinct_addrs(last_call.self[list]) => ascending(out, TRUE)
               /\ \A i, j \in 1..Len(out) :
                      (i < j /\ out[i].addr = out[j].addr) => out[i].value < out[j].value
               /\ Len(out) = Len(last_call.self[list])
               /\ {out[i] : i \in 1..Len(out)}
                      = {last_call.self[list][i] : i \in 1..Len(last_call.self[list])}

\* A split(last = true) of three initialize events that were out of order,
\* returned in more than one memory shard.
C6_Witness ==
    /\ AfterSplit(TRUE)
    /\ Len(last_call.self.memory_initialize_events) = 3
    /\ ~ascending(last_call.self.memory_initialize_events, FALSE)
    /\ distinct_addrs(last_call.self.memory_initialize_events)
    /\ opts.memory = 2
    /\ \E k \in 1..Len(shards) : Len(shards[k].memory_initialize_events) = 2

\* The nonces nonce_lookup gives the events of a stream.
nonces_of(stream) == {record.nonce_lookup[record[stream][i].lookup_id] : i \in 1..Len(record[stream])}

AfterRegisterNonces == last_call.op = "register_nonces"

\* C7 as claimed: after register_nonces on a record of pairwise distinct
\* lookup_ids, the nonces of the events of each ALU stream are 0 .. len - 1.
C7_NoncesDensePerStream ==
    AfterRegisterNonces =>
        \A k \in 1..Len(AluStreams) :
            nonces_of(AluStreams[k]) = 0..(Len(record[AluStreams[k]]) - 1)

\* C7 as amended: after register_nonces on a record of pairwise distinct
\* lookup_ids, the nonces of the events of each of add, mul, bitwise, shift_left,
\* shift_right, divrem and lt are 0 .. len - 1, and the nonces of the sub events
\* are len(add_events) .. len(add_events) + len(sub_events) - 1.
C7_NoncesDenseSubAfterAdd ==
    AfterRegisterNonces =>
        \A k \in 1..Len(AluStreams) :
            LET stream == AluStreams[k]
                base == IF stream = "sub_events" THEN Len(record.add_events) ELSE 0
            IN nonces_of(stream) = base..(base + Len(record[stream]) - 1)

\* register_nonces on a record with add, sub and further ALU events.
C7_Witness ==
    /\ AfterRegisterNonces
    /\ Len(record.add_events) >= 1
    /\ Len(record.sub_events) >= 1
    /\ Len(record.mul_events) >= 1
    /\ DOMAIN record.nonce_lookup # {}

\* C8: after a.append(b) the multiplicity of every byte-lookup event in every
\* shard of a.byte_lookups is its multiplicity in a before the call plus its
\* multiplicity in b before the call, whether a.byte_lookups was empty or not.
C8_AppendSumsByteLookups ==
    last_call.op = "append" =>
        \A shard \in 1..3, event \in LookupEvents :
            lookup_count(record.byte_lookups, shard, event)
                = lookup_count(last_call.self.byte_lookups, shard, event)
                      + lookup_count(last_call.other.byte_lookups, shard, event)

\* An append onto a record that already counts an event the other counts too.
C8_Witness ==
    /\ last_call.op = "append"
    /\ \E event \in LookupEvents :
           /\ lookup_count(last_call.self.byte_lookups, event.shard, event) >= 1
           /\ lookup_count(last_call.other.byte_lookups, event.shard, event) >= 1
           /\ lookup_count(record.byte_lookups, event.shard, event) >= 2

\* C9: DIV, DIVU, REM or REMU whose divisor register holds 0 completes without
\* a fatal error, writes 0xFFFFFFFF (DIV, DIVU) or the dividend (REM, REMU) to
\* rd, and execution goes on with the next instruction.
C9_DivisionByZeroCompletes ==
    LET instruction == last_cycle.instruction
        dividend == register_value(last_cycle.memory, instruction.b)
    IN (/\ instruction.opcode \in DivRemOpcodes
        /\ register_value(last_cycle.memory, instruction.c) = 0) =>
           /\ status # "panicked"
           /\ register_value(memory, instruction.a)
                  = (IF instruction.opcode \in {"DIV", "DIVU"} THEN U32_MAX ELSE dividend)
           /\ pc = last_cycle.pc + 4

\* The value of the last Write to addr among the first n memory events, 0 when
\* there is none.
RECURSIVE last_written(_, _)
last_written(n, addr) ==
    IF n = 0 THEN 0
    ELSE IF memory_events[n].op = "Write" /\ memory_events[n].addr = addr
         THEN memory_events[n].value
         ELSE last_written(n - 1, addr)

\* C10: every Read event of memory_events carries the value of the last Write
\* event to its address before it in the log, or 0 when there is none; and LW
\* leaves in rd the word last stored at the address it loads from.
C10_ReadsCarryLastWrite ==
    /\ \A i \in 1..Len(memory_events) :
           memory_events[i].op = "Read" =>
               memory_events[i].value = last_written(i - 1, memory_events[i].addr)
    /\ (last_cycle.instruction.opcode = "LW" /\ status # "panicked") =>
           LET instruction == last_cycle.instruction
               addr == wrapping_add(register_value(last_cycle.memory, instruction.b),
                                    instruction.c)
           IN /\ register_value(memory, instruction.a) = memory_get(last_cycle.memory, addr)
              /\ memory_events[Len(memory_events) - 1]
                     = MemoryEvent(clk - 1, addr, "Read", memory_get(last_cycle.memory, addr))

\* SW of a non-zero word and then LW of the same address: the Write event
\* precedes the Read event, both carry the word, and rd holds it.
C10_Witness ==
    /\ last_cycle.instruction.opcode = "LW"
    /\ status = "running"
    /\ \E i, j \in 1..Len(memory_events) :
           /\ i < j
           /\ memory_events[i].op = "Write"
           /\ memory_events[j].op = "Read"
           /\ memory_events[i].addr = memory_events[j].addr
           /\ memory_events[i].addr = 4096
           /\ memory_events[i].value = -559038737
           /\ memory_events[j].value = -559038737
    /\ register_value(memory, last_cycle.instruction.a) = -559038737

AluOpcodes == RTypeOpcodes \cup ITypeAluOpcodes

\* The last cycle ran an instruction to its end.
CycleCompleted == last_cycle.instruction.opcode # "NONE" /\ status # "panicked"

\* C11: each ALU instruction that executes appends exactly one ALU event, in
\* program order, with the instruction's opcode, the clk of its cycle, the
\* operand values b and c and the value a = op(b, c) written to rd (b + c mod
\* 2^32 for ADD and ADDI); every other instruction appends none; so a program
\* of n ALU instructions and no branch or jump leaves n events.
C11_OneAluEventPerAluInstruction ==
    /\ CycleCompleted =>
           LET instruction == last_cycle.instruction
               b == register_value(last_cycle.memory, instruction.b)
               c == IF instruction.opcode \in RTypeOpcodes
                    THEN register_value(last_cycle.memory, instruction.c)
                    ELSE instruction.c
               a == register_value(memory, instruction.a)
           IN IF instruction.opcode \in AluOpcodes
              THEN /\ alu_events = Append(last_cycle.alu_events,
                                          AluEvent(last_cycle.clk, instruction.opcode, a, b, c))
                   /\ a = alu(instruction.opcode, b, c)
                   /\ instruction.opcode \in {"ADD", "ADDI"} => a = wrapping_add(b, c)
              ELSE alu_events = last_cycle.alu_events
    /\ \A i \in 1..(Len(alu_events) - 1) : alu_events[i].clk < alu_events[i + 1].clk
    /\ (/\ status = "returned"
        /\ \A k \in 1..Len(code) : code[k].opcode \notin BranchOpcodes \cup {"JAL", "JALR"}) =>
           Len(alu_events) = Cardinality({k \in 1..Len(code) : code[k].opcode \in AluOpcodes})

\* The program addi x1, x0, 7; add x1, x0, x0; add x0, x1, x1 has run: three
\* ALU events, the last for an instruction whose rd is x0.
C11_Witness ==
    /\ status = "returned"
    /\ Len(code) = 3
    /\ Len(alu_events) = 3
    /\ alu_events[1] = AluEvent(0, "ADDI", 7, 0, 7)
    /\ last_cycle.instruction = Instruction("ADD", 0, 1, 1)

\* C12: a branch at address p that is taken leaves pc = (p + 4 + imm) mod 2^32,
\* the advanced pc plus the offset; one that is not taken leaves pc = p + 4.
C12_BranchTarget ==
    (CycleCompleted /\ last_cycle.instruction.opcode \in BranchOpcodes) =>
        LET instruction == last_cycle.instruction
            x == register_value(last_cycle.memory, instruction.a)
            y == register_value(last_cycle.memory, instruction.b)
            taken == CASE instruction.opcode = "BEQ" -> x = y
                       [] instruction.opcode = "BNE" -> x # y
                       [] instruction.opcode = "BLT" -> x < y
                       [] instruction.opcode = "BGE" -> x >= y
                       [] instruction.opcode = "BLTU" -> lt_u(x, y)
                       [] instruction.opcode = "BGEU" -> ~lt_u(x, y)
        IN pc = IF taken THEN wrapping_add(last_cycle.pc + 4, instruction.c)
                ELSE last_cycle.pc + 4

\* A bne at address 8 with offset 4 was taken: pc is 16.
C12_Witness ==
    /\ status = "running"
    /\ last_cycle.instruction = Instruction("BNE", 1, 2, 4)
    /\ last_cycle.pc = 8
    /\ pc = 16

\* C13: an executed instruction that is not a branch or a jump leaves pc 4
\* above where it was.
C13_PcAdvancesByFour ==
    (CycleCompleted /\ last_cycle.instruction.opcode \notin BranchOpcodes \cup {"JAL", "JALR"}) =>
        pc = last_cycle.pc + 4

\* A store at address 4 has executed.
C13_Witness ==
    /\ status = "running"
    /\ last_cycle.instruction.opcode = "SW"
    /\ last_cycle.pc = 4
    /\ pc = 8

\* C14: clk is 0 at the start and is the number of instructions executed so far
\* at every cycle boundary: each executed instruction adds 1 and nothing else
\* changes it.
C14_ClkCountsInstructions ==
    /\ clk = last_cycle.cycles
    /\ status = "new" => clk = 0

\* A loop has executed more instructions than the program holds.
C14_Witness ==
    /\ status = "running"
    /\ clk = 4
    /\ Len(code) = 1
    /\ last_cycle.cycles = 4

C16_StopsWithinBudget == clk <= max_cycles

\* C17: d = r.defer() moves exactly the deferrable streams: the 14 precompile
\* streams and the memory initialize and finalize events are in d as r held
\* them and empty on r; r keeps its cpu events, ALU streams, byte_lookups,
\* public_values and nonce_lookup, and d has them empty or default.
C17_DeferMovesDeferrableStreams ==
    last_call.op = "defer" =>
        LET before == last_call.self
            d == last_call.deferred
            kept == {"cpu_events", "byte_lookups", "public_values", "nonce_lookup"}
                        \cup {AluStreams[k] : k \in 1..Len(AluStreams)}
        IN /\ \A f \in PrecompileStreams \cup {"memory_initialize_events", "memory_finalize_events"} :
                  d[f] = before[f] /\ record[f] = <<>>
           /\ \A f \in kept : record[f] = before[f] /\ d[f] = DefaultRecord[f]

\* A defer on a record that held ALU, precompile and memory events.
C17_Witness ==
    /\ last_call.op = "defer"
    /\ last_call.self.add_events # <<>>
    /\ last_call.deferred.keccak_permute_events # <<>>
    /\ last_call.deferred.memory_initialize_events # <<>>
    /\ last_call.deferred.memory_finalize_events # <<>>
    /\ record.add_events # <<>>

\* C18: after a.append(b) every event stream of a (cpu, ALU, precompile,
\* memory initialize and finalize) is a's stream followed by b's, in order, and
\* every event stream of b is empty.
C18_AppendConcatenatesStreams ==
    last_call.op = "append" =>
        \A f \in {"cpu_events", "memory_initialize_events", "memory_finalize_events"}
                     \cup {AluStreams[k] : k \in 1..Len(AluStreams)} \cup PrecompileStreams :
            /\ record[f] = last_call.self[f] \o last_call.other[f]
            /\ other[f] = <<>>

\* An append of a record with an add event onto a record with add events.
C18_Witness ==
    /\ last_call.op = "append"
    /\ last_call.self.add_events # <<>>
    /\ last_call.other.add_events # <<>>
    /\ last_call.other.keccak_permute_events # <<>>
    /\ Len(record.add_events) >= 2

\* The number of byte lookups a record holds, as a yes or no.
holds_byte_lookups(self) ==
    \E shard \in DOMAIN self.byte_lookups :
        \E event \in DOMAIN self.byte_lookups[shard] : self.byte_lookups[shard][event] > 0

\* stats has an entry for a stream exactly when the stream is not empty, the
\* stream's length.
stats_counts_streams(self, result) ==
    \A name \in StatsStreams :
        /\ name \in DOMAIN result <=> self[name] # <<>>
        /\ name \in DOMAIN result => result[name] = Len(self[name])

\* C19 as claimed: stats() has an entry for a stream name exactly when the
\* stream is not empty, with its length, and has the key byte_lookups exactly
\* when the record holds a non-zero number of byte lookups.
C19_StatsByteLookupsWhenAny ==
    last_call.op = "stats" =>
        /\ stats_counts_streams(last_call.self, last_call.stats)
        /\ "byte_lookups" \in DOMAIN last_call.stats <=> holds_byte_lookups(last_call.self)

\* C19 as amended: stats() has an entry for a stream name exactly when the
\* stream is not empty, with its length, and has the key byte_lookups exactly
\* when cpu_events is not empty and the byte-lookup map of the shard of the
\* first cpu event holds an event; its value is the number of distinct events
\* of that map.
C19_StatsByteLookupsOfFirstCpuShard ==
    last_call.op = "stats" =>
        LET self == last_call.self
            result == last_call.stats
            distinct == IF self.cpu_events = <<>> THEN 0
                        ELSE IF self.cpu_events[1].shard \in DOMAIN self.byte_lookups
                             THEN Cardinality(DOMAIN self.byte_lookups[self.cpu_events[1].shard])
                             ELSE 0
        IN /\ stats_counts_streams(self, result)
           /\ "byte_lookups" \in DOMAIN result <=> distinct > 0
           /\ "byte_lookups" \in DOMAIN result => result["byte_lookups"] = distinct
           /\ DOMAIN result \subseteq StatsStreams \cup {"byte_lookups"}

\* stats() on a record with a cpu event of shard 1 whose byte lookups count one
\* event of shard 1 twice and events of shard 2.
C19_Witness ==
    /\ last_call.op = "stats"
    /\ last_call.self.cpu_events = <<CpuEvent(1)>>
    /\ lookup_count(last_call.self.byte_lookups, 1, ByteLookupEvent(1, 1)) = 2
    /\ 2 \in DOMAIN last_call.self.byte_lookups
    /\ last_call.stats = [name \in {"cpu_events", "byte_lookups"} |-> 1]

\* C20: every shard split returns, precompile shard or memory shard, has the
\* program of the record split was called on, and the record keeps its program.
C20_ShardsShareProgram ==
    last_call.op = "split" =>
        /\ \A k \in 1..Len(shards) : shards[k].program = last_call.self.program
        /\ record.program = last_call.self.program
        /\ last_call.self.program # DefaultProgram

\* A split that returned a precompile shard and a memory shard.
C20_Witness ==
    /\ last_call.op = "split"
    /\ \E k \in 1..Len(shards) : shards[k].keccak_permute_events # <<>>
    /\ \E k \in 1..Len(shards) : shards[k].memory_initialize_events # <<>>

\* C23: DIV of 0x80000000 by 0xFFFFFFFF writes 0x80000000 to rd and REM of the
\* same operands writes 0, both without a fatal error.
C23_SignedOverflowDivision ==
    LET instruction == last_cycle.instruction
    IN (/\ instruction.opcode \in {"DIV", "REM"}
        /\ register_value(last_cycle.memory, instruction.b) = I32_MIN
        /\ register_value(last_cycle.memory, instruction.c) = U32_MAX) =>
           /\ status # "panicked"
           /\ register_value(memory, instruction.a)
                  = (IF instruction.opcode = "DIV" THEN I32_MIN ELSE 0)

\* div x3, x1, x2 has executed with x1 = 0x80000000 and x2 = 0xFFFFFFFF.
C23_Witness ==
    /\ status = "running"
    /\ last_cycle.instruction = Instruction("DIV", 3, 1, 2)
    /\ register_value(last_cycle.memory, 1) = I32_MIN
    /\ register_value(last_cycle.memory, 2) = U32_MAX
    /\ register_value(memory, 3) = I32_MIN

\* C24: SLL, SRL, SRA, SLLI, SRLI and SRAI with any shift operand c, 32 and
\* more included, complete without error and write b shifted by c mod 32 to
\* rd: logically for SLL, SRL and their immediate forms, arithmetically for SRA
\* and SRAI.
C24_ShiftAmountModulo32 ==
    LET instruction == last_cycle.instruction
        b == register_value(last_cycle.memory, instruction.b)
        c == IF instruction.opcode \in RTypeOpcodes
             THEN register_value(last_cycle.memory, instruction.c)
             ELSE instruction.c
    IN instruction.opcode \in ShiftOpcodes =>
           /\ status # "panicked"
           /\ register_value(memory, instruction.a)
                  = CASE instruction.opcode \in {"SLL", "SLLI"} -> shl(b, c % 32)
                      [] instruction.opcode \in {"SRL", "SRLI"} -> shr_u32(b, c % 32)
                      [] instruction.opcode \in {"SRA", "SRAI"} -> shr_i32(b, c % 32)

\* The upper 32 bits of the product of x taken as signed and y taken as
\* unsigned, and of both taken as signed, from the unsigned one.
high_signed_unsigned(x, y) ==
    wrapping_sub(mul_high_zero_extended(x, y), IF x < 0 THEN y ELSE 0)

high_signed_signed(x, y) ==
    wrapping_sub(high_signed_unsigned(x, y), IF y < 0 THEN x ELSE 0)

\* C25: MUL writes the lower 32 bits of the 64-bit product, MULH the upper 32
\* bits with both operands signed, MULSU the upper 32 bits with rs1 signed and
\* rs2 unsigned, MULU the upper 32 bits with both unsigned.
C25_MultiplySignedness ==
    LET instruction == last_cycle.instruction
        b == register_value(last_cycle.memory, instruction.b)
        c == register_value(last_cycle.memory, instruction.c)
    IN (CycleCompleted /\ instruction.opcode \in {"MUL", "MULH", "MULSU", "MULU"}) =>
           register_value(memory, instruction.a)
               = CASE instruction.opcode = "MUL" -> wrapping_mul(b, c)
                   [] instruction.opcode = "MULH" -> high_signed_signed(b, c)
                   [] instruction.opcode = "MULSU" -> high_signed_unsigned(b, c)
                   [] instruction.opcode = "MULU" -> mul_high_zero_extended(b, c)

\* C26: JAL and JALR at instruction address p write p + 4 to rd, without an
\* overflow failure.
C26_LinkIsNextInstruction ==
    last_cycle.instruction.opcode \in {"JAL", "JALR"} =>
        /\ status # "panicked"
        /\ LET written == {i \in 1..Len(memory_events) :
                               /\ memory_events[i].op = "Write"
                               /\ memory_events[i].clk = last_cycle.clk
                               /\ memory_events[i].addr = REG_BASE + last_cycle.instruction.a}
           IN /\ written # {}
              /\ \A i \in written : memory_events[i].value = wrapping_add(last_cycle.pc, 4)

\* C27: JALR sets pc to rs1 + imm (mod 2^32) with bit 0 cleared, rs1 being the
\* value the register held before the instruction, also when rd is rs1.
C27_JalrTarget ==
    LET instruction == last_cycle.instruction
        target == wrapping_add(register_value(last_cycle.memory, instruction.b),
                               instruction.c)
    IN (CycleCompleted /\ instruction.opcode = "JALR") => pc = target - (target % 2)

\* C28: at the start of execution x2 holds 8388608: an instruction that reads
\* x2 before any instruction has written it observes that value.
C28_StackPointerStartsAtMemSize ==
    (/\ CycleCompleted
     /\ last_cycle.instruction = Instruction("ADDI", 3, 2, 0)
     /\ \A i \in 1..Len(memory_events) :
            (memory_events[i].op = "Write" /\ memory_events[i].addr = REG_BASE + 2) =>
                memory_events[i].clk >= last_cycle.clk) =>
        register_value(memory, 3) = 8388608

\* C29: when pc is not a multiple of 4 at a fetch, the interpreter stops with a
\* fatal error and does not execute code[pc / 4].
C29_MisalignedFetchIsFatal ==
    last_cycle.instruction.opcode # "NONE" => last_cycle.pc % 4 = 0

\* The lookup_ids of the ALU events of the record are pairwise distinct.
RECURSIVE alu_events_from(_)
alu_events_from(k) ==
    IF k > Len(AluStreams) THEN <<>> ELSE record[AluStreams[k]] \o alu_events_from(k + 1)

distinct_lookup_ids ==
    LET events == alu_events_from(1)
    IN \A i, j \in 1..Len(events) : events[i].lookup_id = events[j].lookup_id => i = j

\* C30: after register_nonces on a record with pairwise distinct lookup_ids,
\* nonce_lookup maps the i-th add event to i, the i-th sub event to
\* len(add_events) + i, and the i-th event of each of mul, bitwise, shift_left,
\* shift_right, divrem and lt to i, counting i from 0 in each stream.
C30_NonceIsPositionInStream ==
    (AfterRegisterNonces /\ distinct_lookup_ids) =>
        \A k \in 1..Len(AluStreams) :
            \A i \in 0..(Len(record[AluStreams[k]]) - 1) :
                LET stream == AluStreams[k]
                    lookup_id == record[stream][i + 1].lookup_id
                IN /\ lookup_id \in DOMAIN record.nonce_lookup
                   /\ record.nonce_lookup[lookup_id]
                          = (IF stream = "sub_events" THEN Len(record.add_events) + i ELSE i)

\* register_nonces on a record with two add events and two sub events, or with
\* two events of a further stream beside add events.
C30_Witness ==
    /\ AfterRegisterNonces
    /\ distinct_lookup_ids
    /\ Len(record.add_events) >= 1
    /\ \/ Len(record.sub_events) >= 2
       \/ \E k \in 3..Len(AluStreams) : Len(record[AluStreams[k]]) >= 2

\* The element to_vec is to return at position i (from 1) of the first
\* size_of::<PublicValues<Word<u8>, u8>>() ones.
lifted_field(i) ==
    IF i <= 4 * PV_DIGEST_NUM_WORDS
    THEN byte_of(values.committed_value_digest[((i - 1) \div 4) + 1], (i - 1) % 4)
    ELSE IF i <= 4 * PV_DIGEST_NUM_WORDS + POSEIDON_NUM_WORDS
    THEN values.deferred_proofs_digest[i - 4 * PV_DIGEST_NUM_WORDS]
    ELSE values[ScalarFields[i - 4 * PV_DIGEST_NUM_WORDS - POSEIDON_NUM_WORDS]]

\* C21: to_vec returns a vector of exactly PROOF_MAX_NUM_PVS elements without
\* failing any assertion: its first size_of(PublicValues<Word<u8>, u8>)
\* elements are the lifted fields in declaration order (each digest word as its
\* 4 little-endian bytes, each scalar as one element), every remaining element
\* is zero.
C21_ToVecPadsToMaximum ==
    values_call.op = "to_vec" =>
        /\ ~values_call.panicked
        /\ Len(values_call.ret) = max_num_pvs
        /\ \A i \in 1..SP1_PROOF_NUM_PV_ELTS : values_call.ret[i] = lifted_field(i)
        /\ \A i \in (SP1_PROOF_NUM_PV_ELTS + 1)..max_num_pvs : values_call.ret[i] = 0

\* C22: for public values lifted from any PublicValues<u32, u32>,
\* commit_digest_bytes returns exactly 32 bytes: the 4 little-endian bytes of
\* each of the 8 committed_value_digest words, in word order.
C22_CommitDigestBytes ==
    values_call.op = "commit_digest_bytes" =>
        /\ Len(values_call.ret) = 32
        /\ \A w \in 1..8, k \in 0..3 :
               values_call.ret[4 * (w - 1) + k + 1]
                   = byte_of(values.committed_value_digest[w], k)

\* commit_digest_bytes on a digest that holds the word 0x01020304, whose four
\* bytes differ, among words that differ from each other.
C22_Witness ==
    /\ values_call.op = "commit_digest_bytes"
    /\ Len(values_call.ret) = 32
    /\ \E w \in 1..8 :
           /\ values.committed_value_digest[w] = 16909060
           /\ values_call.ret[4 * (w - 1) + 1] = 4
           /\ values_call.ret[4 * (w - 1) + 4] = 1

\* ceil(n / m), and the k-th chunk of m events of a list.
ceil_div(n, m) == (n + m - 1) \div m

chunk_of(events, k, m) ==
    SubSeq(events, (k - 1) * m + 1, IF k * m < Len(events) THEN k * m ELSE Len(events))

holds_memory_events(shard) ==
    shard.memory_initialize_events # <<>> \/ shard.memory_finalize_events # <<>>

\* C31: split emits memory shards only when last is true; then, with I
\* initialize events, F finalize events and memory chunk size m, it emits exactly
\* max(ceil(I/m), ceil(F/m)) memory shards, after all precompile shards, the k-th
\* holding the k-th chunk of m of the address-sorted initialize list and the k-th
\* chunk of the address-sorted finalize list (one of them empty once its list is
\* exhausted); when last is false both memory lists stay unchanged on the record.
C31_MemoryShards ==
    /\ AfterSplit(FALSE) =>
           /\ \A k \in 1..Len(shards) : ~holds_memory_events(shards[k])
           /\ record.memory_initialize_events = last_call.self.memory_initialize_events
           /\ record.memory_finalize_events = last_call.self.memory_finalize_events
    /\ AfterSplit(TRUE) =>
           LET init == sort_by_addr(last_call.self.memory_initialize_events)
               finalize == sort_by_addr(last_call.self.memory_finalize_events)
               m == opts.memory
               n == IF ceil_div(Len(init), m) > ceil_div(Len(finalize), m)
                    THEN ceil_div(Len(init), m) ELSE ceil_div(Len(finalize), m)
               first == Len(shards) - n
           IN /\ first >= 0
              /\ \A k \in 1..first :
                     /\ ~holds_memory_events(shards[k])
                     /\ \E stream \in PrecompileStreams : shards[k][stream] # <<>>
              /\ \A k \in 1..n :
                     /\ shards[first + k].memory_initialize_events = chunk_of(init, k, m)
                     /\ shards[first + k].memory_finalize_events = chunk_of(finalize, k, m)
                     /\ \A stream \in PrecompileStreams : shards[first + k][stream] = <<>>

\* A split(last = true) with chunk size 2 of three initialize events out of
\* address order and fewer finalize events, behind a precompile shard: two memory
\* shards, the second with no finalize event.
C31_Witness ==
    /\ AfterSplit(TRUE)
    /\ opts.memory = 2
    /\ Len(last_call.self.memory_initialize_events) = 3
    /\ last_call.self.memory_initialize_events
           # sort_by_addr(last_call.self.memory_initialize_events)
    /\ Len(last_call.self.memory_finalize_events) \in 1..2
    /\ Len(shards) = 3
    /\ shards[1].keccak_permute_events # <<>>
    /\ Len(shards[3].memory_initialize_events) = 1
    /\ shards[3].memory_finalize_events = <<>>

\* C32: sub-word loads address bytes inside a little-endian word: after SW has
\* stored v at a 4-byte-aligned address A, LBU at A + k (k = 0..3) loads byte k
\* of v, (v >> 8k) & 0xFF, and LB loads the same byte sign-extended to 32 bits.
C32_ByteLoadsInsideWord ==
    LET instruction == last_cycle.instruction
        addr == wrapping_add(register_value(last_cycle.memory, instruction.b),
                             instruction.c)
        k == addr % 4
        A == addr - k
        v == memory_get(last_cycle.memory, A)
    IN (/\ CycleCompleted
        /\ instruction.opcode \in {"LBU", "LB"}
        /\ \A i \in 1..Len(code) : code[i].opcode \in StoreOpcodes => code[i].opcode = "SW"
        /\ \E i \in 1..Len(memory_events) :
               /\ memory_events[i].op = "Write"
               /\ memory_events[i].addr = A
               /\ memory_events[i].clk < last_cycle.clk) =>
           register_value(memory, instruction.a)
               = (IF instruction.opcode = "LBU" THEN byte_of(v, k) ELSE as_i8(byte_of(v, k)))

\* The stream the record documents for the events of an ALU opcode.
documented_stream(opcode) ==
    CASE opcode = "ADD" -> "add_events"
      [] opcode = "SUB" -> "sub_events"
      [] opcode \in {"MUL", "MULH", "MULHU", "MULHSU"} -> "mul_events"
      [] opcode \in {"XOR", "OR", "AND"} -> "bitwise_events"
      [] opcode = "SLL" -> "shift_left_events"
      [] opcode \in {"SRL", "SRA"} -> "shift_right_events"
      [] opcode \in {"SLT", "SLTU"} -> "lt_events"
      [] opcode \in {"DIV", "DIVU", "REM", "REMU"} -> "divrem_events"

\* The event lists of a map under the keys of an order, one after the other.
RECURSIVE batches_in(_, _)
batches_in(alu_event_map, order) ==
    IF order = <<>> THEN <<>>
    ELSE alu_event_map[Head(order)] \o batches_in(alu_event_map, Tail(order))

\* C33: add_alu_events accepts every ALU opcode key and appends its events,
\* order preserved, to the stream documented for that opcode (ADD to add_events,
\* SUB to sub_events, MUL/MULH/MULHU/MULHSU to mul_events, XOR/OR/AND to
\* bitwise_events, SLL to shift_left_events, SRL/SRA to shift_right_events,
\* SLT/SLTU to lt_events, DIV/DIVU/REM/REMU to divrem_events); none is rejected.
C33_AddAluEventsAcceptsEveryOpcode ==
    last_call.op = "add_alu_events" =>
        /\ ~last_call.panicked
        /\ \A k \in 1..Len(AluStreams) :
               LET stream == AluStreams[k]
                   keys == {opcode \in DOMAIN last_call.alu_events :
                               documented_stream(opcode) = stream}
               IN \E order \in key_orders(keys) :
                      record[stream]
                          = last_call.self[stream] \o batches_in(last_call.alu_events, order)

\* C34: split(last = true) consumes the record: afterwards every deferrable
\* stream of the source record, memory_initialize_events and
\* memory_finalize_events included, is empty, so that a split(last = true)
\* repeated at once returns no shards.
C34_SplitConsumesRecord ==
    AfterSplit(TRUE) =>
        /\ \A stream \in DeferStreams : record[stream] = <<>>
        /\ split(record, TRUE, opts).shards = <<>>

\* C35: every shard split returns, for either value of last and any chunk sizes
\* >= 1, is non-empty and bounded: a precompile shard holds events of exactly
\* one stream, between 1 and that stream's chunk size of them, and a memory
\* shard holds at most opts.memory initialize events and at most opts.memory
\* finalize events, with at least one event in total.
C35_ShardsNonEmptyAndBounded ==
    last_call.op = "split" =>
        \A k \in 1..Len(shards) :
            LET shard == shards[k]
                held == {stream \in PrecompileStreams : shard[stream] # <<>>}
            IN \/ /\ ~holds_memory_events(shard)
                  /\ Cardinality(held) = 1
                  /\ \A stream \in held : Len(shard[stream]) \in 1..threshold_of(stream)
               \/ /\ holds_memory_events(shard)
                  /\ held = {}
                  /\ Len(shard.memory_initialize_events) <= opts.memory
                  /\ Len(shard.memory_finalize_events) <= opts.memory

\* A split(last = true) with memory chunk size 2 that returns a keccak shard,
\* a memory shard with two initialize events and one with a single event.
C35_Witness ==
    /\ AfterSplit(TRUE)
    /\ opts.memory = 2
    /\ \E k \in 1..Len(shards) : Len(shards[k].keccak_permute_events) = 1
    /\ \E k \in 1..Len(shards) : Len(shards[k].memory_initialize_events) = 2
    /\ \E k \in 1..Len(shards) :
           /\ Len(shards[k].memory_initialize_events) = 1
           /\ shards[k].memory_finalize_events = <<>>

\* How often an event occurs in a list.
RECURSIVE occurrences(_, _)
occurrences(events, event) ==
    IF events = <<>> THEN 0
    ELSE (IF Head(events) = event THEN 1 ELSE 0) + occurrences(Tail(events), event)

\* C36: split neither loses nor duplicates precompile events: for every
\* precompile stream and either value of last, each event of the stream as it
\* was before the call occurs exactly once, in one returned shard or (only when
\* last is false) in the remainder kept on the source record, and no other event
\* occurs in those places.
C36_PrecompileEventsKept ==
    last_call.op = "split" =>
        \A stream \in PrecompileStreams :
            LET before == last_call.self[stream]
                after == stream_concat(shards, stream) \o record[stream]
            IN /\ Len(after) = Len(before)
               /\ \A i \in 1..Len(before) : occurrences(after, before[i]) = 1
               /\ last_call.last => record[stream] = <<>>

\* A split(last = true) of five keccak events with chunk size 2, and a
\* split(last = false) of a stream that leaves a remainder on the record.
C36_Witness ==
    /\ last_call.op = "split"
    /\ \/ /\ last_call.last
          /\ Len(last_call.self.keccak_permute_events) = 5
          /\ opts.keccak = 2
          /\ Len(stream_concat(shards, "keccak_permute_events")) = 5
       \/ /\ ~last_call.last
          /\ Len(last_call.self.secp256k1_add_events) = 3
          /\ opts.deferred = 2
          /\ Len(record.secp256k1_add_events) = 1

\* C37: the record defer returns references the same Program as the record it
\* was taken from, so that every shard made by splitting a deferred record
\* carries the program of the original execution record.
C37_DeferredRecordKeepsProgram ==
    last_call.op = "defer" =>
        /\ last_call.deferred.program = last_call.self.program
        /\ \A last \in BOOLEAN :
               LET made == split(last_call.deferred, last, opts).shards
               IN \A k \in 1..Len(made) : made[k].program = last_call.self.program

====
